---- MODULE Spec2Model ----
(***************************************************************************)
(* The LangGraph travel assistant of booking_agent.py: the agent nodes,    *)
(* the keyword router and the compiled supervisor/specialist graph.        *)
(***************************************************************************)
EXTENDS Integers, Sequences, FiniteSets, TLC

VARIABLES
    messages,     \* TravelState.messages: sequence of message dicts
    error,        \* TravelState.error
    node,         \* the node the graph executes next (END when the run is over)
    decision,     \* the last value returned by router ("unset" before the first)
    turn,         \* history: number of agent-node invocations so far
    prev,         \* history: the node executed last ("START" before the first)
    lastOutcome,  \* history: "ok" / "failed" outcome of the last LLM call
    assistant,    \* graph.py: the supersteps of create_travel_assistant_graph
    config,       \* config.py: HITL_ENABLED and HITL_MODE of this deployment
    conversation_state,  \* agents/supervisor.py: the module-level dict
    last_call,    \* history: the latest process_tool_calls invocation
    hitl,         \* the human-interaction call in progress, if any
    session,      \* app.py: st.session_state of one browser session
    serp,         \* booking_agent.py: the cache directory and the SerpAPI calls
    cli,          \* main.py: the session loop of the command-line assistant
    itinerary_call  \* agents/itinerary_agent.py: the latest create_itinerary call

vars == <<messages, error, node, decision, turn, prev, lastOutcome, assistant,
          config, conversation_state, last_call, hitl, session, serp,
                cli, itinerary_call>>

\* the state of the command-line assistant, of the human-interaction calls,
\* of the Streamlit session and of the SerpAPI functions
cli_vars == <<config, conversation_state, last_call, hitl, session, serp,
                cli, itinerary_call>>

----------------------------------------------------------------------------
(* Python values *)

None == "None"
END == "__end__"
START == "__start__"

----------------------------------------------------------------------------
(* str.lower() and the substring test `p in t`, on ASCII text *)

LowerChar(c) ==
    CASE c = "A" -> "a" [] c = "B" -> "b" [] c = "C" -> "c" [] c = "D" -> "d"
      [] c = "E" -> "e" [] c = "F" -> "f" [] c = "G" -> "g" [] c = "H" -> "h"
      [] c = "I" -> "i" [] c = "J" -> "j" [] c = "K" -> "k" [] c = "L" -> "l"
      [] c = "M" -> "m" [] c = "N" -> "n" [] c = "O" -> "o" [] c = "P" -> "p"
      [] c = "Q" -> "q" [] c = "R" -> "r" [] c = "S" -> "s" [] c = "T" -> "t"
      [] c = "U" -> "u" [] c = "V" -> "v" [] c = "W" -> "w" [] c = "X" -> "x"
      [] c = "Y" -> "y" [] c = "Z" -> "z" [] OTHER -> c

RECURSIVE lower(_)
lower(t) ==
    IF Len(t) = 0 THEN ""
    ELSE IF Len(t) = 1 THEN LowerChar(t)
    ELSE LET h == Len(t) \div 2
         IN  lower(SubSeq(t, 1, h)) \o lower(SubSeq(t, h + 1, Len(t)))

\* Python's `p in t` for strings
Contains(p, t) ==
    \E i \in 1..(Len(t) - Len(p) + 1) : SubSeq(t, i, i + Len(p) - 1) = p

\* any(p in t for p in terms)
AnyIn(terms, t) == \E p \in terms : Contains(p, t)

----------------------------------------------------------------------------
(* Agent prompts (HITL_ENABLED = False, as config.py sets it) *)

SUPERVISOR_PROMPT ==
    "You are the supervisor agent for a travel planning system. Your responsibilities include:\n" \o
    "\n" \o
    "1. Initial request analysis and task delegation\n" \o
    "2. Coordination between specialist agents\n" \o
    "3. Error handling and recovery\n" \o
    "4. Managing user interactions\n" \o
    "5. Ensuring all travel requirements are met\n" \o
    "\n" \o
    "Use the available tools to search for travel options and coordinate with other agents.\n" \o
    "Process requests automatically without human intervention since Human-in-the-Loop is disabled.\n" \o
    "Maintain conversation context and handle transitions between agents smoothly."

FLIGHT_AGENT_PROMPT ==
    "You are a flight booking specialist agent. Your key responsibilities include:\n" \o
    "\n" \o
    "1. Searching for optimal flight options using SerpAPI\n" \o
    "2. Analyzing and filtering results based on user preferences\n" \o
    "3. Presenting options clearly for user selection\n" \o
    "4. Handling booking-related queries and issues\n" \o
    "5. Coordinating with other agents for complete travel planning\n" \o
    "\n" \o
    "Always verify flight availability and pricing before presenting options.\n" \o
    "Process flight selections automatically without human intervention.\n" \o
    "Handle errors gracefully and suggest alternatives when needed."

HOTEL_AGENT_PROMPT ==
    "You are a hotel booking specialist agent. Your key responsibilities include:\n" \o
    "\n" \o
    "1. Finding suitable accommodations using SerpAPI\n" \o
    "2. Matching hotels to user preferences and budget\n" \o
    "3. Verifying availability and amenities\n" \o
    "4. Presenting options clearly for user selection\n" \o
    "5. Coordinating with other agents for complete travel planning\n" \o
    "\n" \o
    "Consider location, ratings, and reviews when selecting options.\n" \o
    "Process hotel selections automatically without human intervention.\n" \o
    "Handle errors gracefully and suggest alternatives when needed."

ITINERARY_AGENT_PROMPT ==
    "You are an itinerary planning specialist. Your key responsibilities include:\n" \o
    "\n" \o
    "1. Creating comprehensive travel schedules\n" \o
    "2. Incorporating flight and hotel bookings\n" \o
    "3. Suggesting activities and attractions\n" \o
    "4. Optimizing timing and logistics\n" \o
    "5. Providing a complete travel plan\n" \o
    "\n" \o
    "Use SerpAPI to find local attractions and activities.\n" \o
    "Consider travel times, check-in/out times, and local conditions.\n" \o
    "Generate complete itineraries automatically.\n"

enhanced_prompt ==
    ITINERARY_AGENT_PROMPT \o
    "\n" \o
    "\n" \o
    "When you've completed creating a full itinerary or answered the user's question completely, \n" \o
    "end your message with 'This completes your final itinerary. Is there anything else you'd like to know?'\n" \o
    "This will help ensure the conversation reaches a natural conclusion.\n"


----------------------------------------------------------------------------
(* router: the conditional edge taken after the supervisor *)

terminal_phrases ==
    { "final itinerary", "thank you", "goodbye", "thank you for your help",
      "anything else you'd like to know",
      "is there anything else you'd like to know",
      "is there anything else i can help you with",
      "this completes your", "completed your request", "all set", "all done" }

flight_terms ==
    { "flight", "book a trip", "travel from", "fly to", "booking", "airline" }

hotel_terms ==
    { "hotel", "accommodation", "place to stay", "lodging", "room" }

itinerary_terms ==
    { "itinerary", "plan", "schedule", "activities", "attractions" }

\* the `len(state.messages) > 15` threshold
MessageCeiling == 15

\* state.messages[-1]["content"] if state.messages[-1].get("content") else "",
\* before .lower() is applied
content_of(m) == IF "content" \in DOMAIN m THEN m.content ELSE ""

\* the search-completion test
search_completed(last_message) ==
    \/ Contains("found", last_message) /\ AnyIn({"flight", "hotel"}, last_message)
    \/ Contains("search results", last_message)
    \/ Contains("search completed", last_message)

\* route_by_content returning "hotel", a name the conditional edge of the
\* supervisor does not map to a node
route_by_content_unmapped_hotel(last_message) ==
    IF AnyIn(flight_terms, last_message) THEN "flight_agent"
    ELSE IF AnyIn(hotel_terms, last_message) THEN "hotel"
    ELSE IF AnyIn(itinerary_terms, last_message) THEN "itinerary_agent"
    ELSE "supervisor"

\* route_by_content with the hotel and itinerary branches in the other order
route_by_content_itinerary_first(last_message) ==
    IF AnyIn(flight_terms, last_message) THEN "flight_agent"
    ELSE IF AnyIn(itinerary_terms, last_message) THEN "itinerary_agent"
    ELSE IF AnyIn(hotel_terms, last_message) THEN "hotel_agent"
    ELSE "supervisor"

\* the keyword classification at the end of router
route_by_content(last_message) ==
    IF AnyIn(flight_terms, last_message) THEN "flight_agent"
    ELSE IF AnyIn(hotel_terms, last_message) THEN "hotel_agent"
    ELSE IF AnyIn(itinerary_terms, last_message) THEN "itinerary_agent"
    ELSE "supervisor"

----------------------------------------------------------------------------
(* The agent nodes.  An LLM call either returns a text, returns a message   *)
(* whose content is None (the slice assistant_message[:50] then raises      *)
(* inside the try block), or raises.                                        *)

error_msg == "Error calling LLM API"

Raises == [kind |-> "raises"]
NoContent == [kind |-> "none"]
Text(t) == [kind |-> "text", content |-> t]

\* agent_node returning state.messages, not its extended copy, on failure
agent_node_drops_directive_on_failure(msgs, prompt, llm) ==
    LET with_prompt == Append(msgs, [role |-> "system", content |-> prompt])
    IN  IF llm.kind = "text"
        THEN [messages |-> Append(with_prompt,
                                  [role |-> "assistant", content |-> llm.content])]
        ELSE [messages |-> msgs, error |-> error_msg]

\* the body shared by supervisor_agent, flight_agent, hotel_agent and
\* itinerary_agent: the dict the node returns
agent_node(msgs, prompt, llm) ==
    LET with_prompt == Append(msgs, [role |-> "system", content |-> prompt])
    IN  IF llm.kind = "text"
        THEN [messages |-> Append(with_prompt,
                                  [role |-> "assistant", content |-> llm.content])]
        ELSE [messages |-> with_prompt, error |-> error_msg]

supervisor_agent(msgs, llm) == agent_node(msgs, SUPERVISOR_PROMPT, llm)
flight_agent(msgs, llm) == agent_node(msgs, FLIGHT_AGENT_PROMPT, llm)
hotel_agent(msgs, llm) == agent_node(msgs, HOTEL_AGENT_PROMPT, llm)
itinerary_agent(msgs, llm) == agent_node(msgs, enhanced_prompt, llm)

\* LangGraph applies a node's returned dict to the state: a key that is
\* returned overwrites the field, a key that is absent leaves it as it was
updated(update, key, old) ==
    IF key \in DOMAIN update THEN update[key] ELSE old

----------------------------------------------------------------------------
(* Bounds of the model *)

\* how many of the sample LLM responses below an LLM call may return
NumTexts == 6

\* cap on the history counter `turn`, so that a run that never ends stays finite
TurnCap == 18

\* longest message history router is evaluated on by itself
MaxHistory == 17

llm_samples ==
    << "",
       "I will look into flight options for you.",
       "Let me check Hotel availability.",
       "This completes your final itinerary. Is there anything else you'd like to know?",
       "I found 3 flights for your dates.",
       "Goodbye!",
       "Search completed." >>

LLMTexts ==
    { llm_samples[i] : i \in 1..(IF NumTexts < Len(llm_samples)
                                 THEN NumTexts ELSE Len(llm_samples)) }

\* the test query of main()
UserMessages ==
    { "I want to book a trip from Mumbai to Mangalore from May 3-6, 2025" }

\* responses of the flight and hotel agents
SearchAgentTexts == { "Here are the best options." }

\* responses of the itinerary agent; its directive asks it to close with the
\* second one
ItineraryTexts ==
    { "Day 1: arrival and check-in.",
      "This completes your final itinerary. Is there anything else you'd like to know?" }

SpecialistTexts == SearchAgentTexts \cup ItineraryTexts

Outcomes(texts) == { Text(t) : t \in texts } \cup { NoContent, Raises }

\* Texts for evaluating router on its own: every phrase and term of its lists
\* alone, and combinations of a terminal phrase, a search-completion phrase
\* and flight, hotel and itinerary terms, in mixed case
RouterTexts ==
    terminal_phrases \cup flight_terms \cup hotel_terms \cup itinerary_terms
        \cup { "search results", "search completed", "found", "Hello" }
        \cup { a \o b \o c \o d \o e :
                 a \in { "Well. ", "Thank You! ", "That is all done. " },
                 b \in { "", "We found options. ", "Search Results below. " },
                 c \in { "", "Cheap Flights. " },
                 d \in { "", "A hotel with a view. " },
                 e \in { "", "Your daily schedule." } }

\* every text that occurs as the content of a message
Contents ==
    LLMTexts \cup SpecialistTexts \cup UserMessages \cup RouterTexts
        \cup { "", SUPERVISOR_PROMPT, FLIGHT_AGENT_PROMPT, HOTEL_AGENT_PROMPT,
               enhanced_prompt }

\* the tests router makes on the lowercased last message, tabulated once per text
router_tests ==
    [ t \in Contents |->
        LET last_message == lower(t)
        IN  [ terminal  |-> AnyIn(terminal_phrases, last_message),
              completed |-> search_completed(last_message),
              target    |-> route_by_content(last_message) ] ]

\* router with the threshold test written >= instead of >
router_ceiling_inclusive(msgs) ==
    IF Len(msgs) = 0 THEN "supervisor"
    ELSE LET on_last == router_tests[content_of(msgs[Len(msgs)])]
         IN  IF on_last.terminal THEN END
             ELSE IF Len(msgs) >= MessageCeiling THEN END
             ELSE IF on_last.completed THEN END
             ELSE on_last.target

\* router with the search-completion test placed after the keyword dispatch
router_dispatch_before_completion(msgs) ==
    IF Len(msgs) = 0 THEN "supervisor"
    ELSE LET on_last == router_tests[content_of(msgs[Len(msgs)])]
         IN  IF on_last.terminal THEN END
             ELSE IF Len(msgs) > MessageCeiling THEN END
             ELSE IF on_last.target # "supervisor" THEN on_last.target
             ELSE IF on_last.completed THEN END
             ELSE "supervisor"

router(msgs) ==
    IF Len(msgs) = 0 THEN "supervisor"
    ELSE LET on_last == router_tests[content_of(msgs[Len(msgs)])]
         IN  IF on_last.terminal THEN END
             ELSE IF Len(msgs) > MessageCeiling THEN END
             ELSE IF on_last.completed THEN END
             ELSE on_last.target

\* value of `assistant` in the runs of the other graph
not_built == [scheduled |-> {}, ran |-> {}, entered_end_from |-> {}]

\* config.py as shipped
shipped_config == [HITL_ENABLED |-> FALSE, HITL_MODE |-> "streamlit"]

\* values of the command-line and Streamlit state while only a graph runs
not_started == [state |-> "not started"]

GraphOnly ==
    /\ config = shipped_config
    /\ conversation_state = not_started
    /\ last_call = not_started
    /\ hitl = not_started
    /\ session = not_started
    /\ serp = not_started
    /\ cli = not_started
    /\ itinerary_call = not_started

----------------------------------------------------------------------------
(* The compiled graph of create_travel_graph: entry point supervisor, the   *)
(* conditional edge router after supervisor, an edge from every specialist  *)
(* back to supervisor.  `workflow.recursion_limit = 200` sets an attribute  *)
(* of the builder only; it does not take part in a run.                     *)

Init ==
    /\ messages \in { <<[role |-> "user", content |-> u]>> : u \in UserMessages }
    /\ error = None
    /\ node = "supervisor"
    /\ decision = "unset"
    /\ turn = 0
    /\ prev = START
    /\ lastOutcome = "none"
    /\ assistant = not_built
    /\ GraphOnly

\* one superstep: run the node, merge its update into the state
RunNode(name, update, llm) ==
    /\ messages' = update.messages
    /\ error' = updated(update, "error", error)
    /\ turn' = turn + 1
    /\ prev' = name
    /\ lastOutcome' = IF llm.kind = "text" THEN "ok" ELSE "failed"
    /\ UNCHANGED <<assistant, cli_vars>>

Supervisor(llm) ==
    /\ node = "supervisor"
    /\ turn < TurnCap
    /\ LET update == supervisor_agent(messages, llm)
       IN  /\ RunNode("supervisor", update, llm)
           /\ decision' = router(update.messages)
           /\ node' = decision'

Flight(llm) ==
    /\ node = "flight_agent"
    /\ turn < TurnCap
    /\ RunNode("flight_agent", flight_agent(messages, llm), llm)
    /\ node' = "supervisor"
    /\ UNCHANGED decision

Hotel(llm) ==
    /\ node = "hotel_agent"
    /\ turn < TurnCap
    /\ RunNode("hotel_agent", hotel_agent(messages, llm), llm)
    /\ node' = "supervisor"
    /\ UNCHANGED decision

Itinerary(llm) ==
    /\ node = "itinerary_agent"
    /\ turn < TurnCap
    /\ RunNode("itinerary_agent", itinerary_agent(messages, llm), llm)
    /\ node' = "supervisor"
    /\ UNCHANGED decision

Next ==
    \/ \E llm \in Outcomes(LLMTexts) : Supervisor(llm)
    \/ \E llm \in Outcomes(SearchAgentTexts) : Flight(llm)
    \/ \E llm \in Outcomes(SearchAgentTexts) : Hotel(llm)
    \/ \E llm \in Outcomes(ItineraryTexts) : Itinerary(llm)

Spec == Init /\ [][Next]_vars

----------------------------------------------------------------------------
(* router evaluated by itself on a TravelState *)

Roles == { "user", "assistant", "system" }

filler == [role |-> "user", content |-> "Hello"]

\* histories of 0..MaxHistory messages; the last message has any role and any
\* of the router texts as content, or no content at all
RouterInputs ==
    { <<>> } \cup
    { [i \in 1..n |-> IF i < n THEN filler ELSE last] :
        n \in 1..MaxHistory,
        last \in { [role |-> r, content |-> t] : r \in Roles, t \in RouterTexts }
                 \cup { [role |-> r] : r \in Roles } }

InitRouter ==
    /\ messages \in RouterInputs
    /\ error = None
    /\ node = "router"
    /\ decision = "unset"
    /\ turn = 0
    /\ prev = START
    /\ lastOutcome = "none"
    /\ assistant = not_built
    /\ GraphOnly

RouterEval ==
    /\ node = "router"
    /\ decision' = router(messages)
    /\ node' = "routed"
    /\ UNCHANGED <<messages, error, turn, prev, lastOutcome, assistant, cli_vars>>

NextRouter == RouterEval

SpecRouter == InitRouter /\ [][NextRouter]_vars

----------------------------------------------------------------------------
(* graph.py: the wiring of create_travel_assistant_graph.  Its edges are     *)
(* all unconditional, so every successor of every node that ran is          *)
(* scheduled for the next superstep; an edge to END schedules nothing.  Of  *)
(* its nodes only human_intervention updates the state: it appends the      *)
(* operator's feedback to messages.                                         *)

assistant_edges ==
    { <<START, "supervisor">>,
      <<"supervisor", "flight_agent">>,
      <<"supervisor", "hotel_agent">>,
      <<"supervisor", "parallel_search">>,
      <<"supervisor", "itinerary_agent">>,
      <<"supervisor", "human">>,
      <<"supervisor", END>>,
      <<"flight_agent", "supervisor">>,
      <<"hotel_agent", "supervisor">>,
      <<"parallel_search", "supervisor">>,
      <<"itinerary_agent", "supervisor">>,
      <<"itinerary_agent", END>>,
      <<"human", "supervisor">> }

successors(nodes) == { e[2] : e \in { d \in assistant_edges : d[1] \in nodes } }

\* how many feedback messages the operator gives in one run
MaxFeedback == 6

HumanFeedback == { "ok", "cheaper please" }

InitAssistant ==
    /\ messages = <<>>
    /\ error = None
    /\ node = "assistant_graph"
    /\ decision = "unset"
    /\ turn = 0
    /\ prev = START
    /\ lastOutcome = "none"
    /\ assistant = [scheduled |-> successors({START}), ran |-> {},
                    entered_end_from |-> {}]
    /\ GraphOnly

\* Command(goto="supervisor", update={"messages": [{"type": "human", ...}]})
human_intervention(msgs, human_feedback) ==
    Append(msgs, [type |-> "human", content |-> human_feedback])

AssistantSuperstep(human_feedback) ==
    /\ node = "assistant_graph"
    /\ assistant.scheduled # {}
    /\ "human" \in assistant.scheduled => Len(messages) < MaxFeedback
    /\ assistant' =
           [scheduled |-> successors(assistant.scheduled) \ {END},
            ran |-> assistant.scheduled,
            entered_end_from |->
                { n \in assistant.scheduled : <<n, END>> \in assistant_edges }]
    /\ messages' = IF "human" \in assistant.scheduled
                   THEN human_intervention(messages, human_feedback)
                   ELSE messages
    /\ UNCHANGED <<error, node, decision, turn, prev, lastOutcome, cli_vars>>

NextAssistant == \E human_feedback \in HumanFeedback : AssistantSuperstep(human_feedback)

SpecAssistant == InitAssistant /\ [][NextAssistant]_vars

\* the graph engine runs supersteps until no node is scheduled
FairSpec == Spec /\ WF_vars(Next)

----------------------------------------------------------------------------
(* Properties of the compiled travel graph *)

\* C1: every run started from one user message reaches END after at most 15
\* agent-node invocations, whatever each LLM call returns or raises.
C1_EndsWithinFifteenInvocations ==
    /\ [](turn <= MessageCeiling)
    /\ <>(node = END)

\* a run that used all 15 invocations and ended
C1_Witness == node = END /\ turn = MessageCeiling

----------------------------------------------------------------------------
(* Vocabulary of the properties *)

Specialists == { "flight_agent", "hotel_agent", "itinerary_agent" }

\* what each text says, tabulated once
says ==
    [ t \in Contents |->
        LET s == lower(t)
        IN  [ terminal  |-> AnyIn(terminal_phrases, s),
              completed |-> \/ Contains("found", s) /\ Contains("flight", s)
                            \/ Contains("found", s) /\ Contains("hotel", s)
                            \/ Contains("search results", s)
                            \/ Contains("search completed", s),
              flight    |-> AnyIn(flight_terms, s),
              hotel     |-> AnyIn(hotel_terms, s),
              itinerary |-> AnyIn(itinerary_terms, s) ] ]

Last == messages[Len(messages)]

LastSays == says[content_of(Last)]

HasAssistant == \E i \in 1..Len(messages) : messages[i].role = "assistant"

LatestAssistant ==
    LET i == CHOOSE k \in 1..Len(messages) :
                 /\ messages[k].role = "assistant"
                 /\ \A j \in (k + 1)..Len(messages) : messages[j].role # "assistant"
    IN  messages[i]

\* every LLM call of the run so far succeeded: each invocation added its
\* directive and one assistant message
AllSucceeded == Len(messages) = 1 + 2 * turn

\* no assistant message of the run holds a terminal phrase or search-completion text
NoEndingText ==
    \A i \in 1..Len(messages) :
        messages[i].role = "assistant" =>
            /\ ~says[messages[i].content].terminal
            /\ ~says[messages[i].content].completed

----------------------------------------------------------------------------

----------------------------------------------------------------------------

\* C3 as claimed: whenever the latest assistant message holds a terminal
\* phrase, the router evaluation that follows returns END, and the router's
\* terminal-phrase decision is taken on an assistant message.
C3_TerminalPhraseOfLatestAssistantEnds ==
    (prev = "supervisor" /\ HasAssistant /\ says[LatestAssistant.content].terminal) =>
        /\ decision = END
        /\ Last.role = "assistant"

\* C4: when a termination condition holds (more than 15 messages, a terminal
\* phrase in the last message, or a completed search signalled by it), router
\* returns END, also when the message holds flight, hotel or itinerary terms.
C4_TerminationBeforeDispatch ==
    (node = "routed" /\ Len(messages) > 0
        /\ (\/ Len(messages) > MessageCeiling
            \/ LastSays.terminal
            \/ LastSays.completed))
    => decision = END

\* a completed search reported together with flight terms, below the ceiling
C4_Witness ==
    /\ node = "routed"
    /\ Len(messages) > 0
    /\ Len(messages) <= MessageCeiling
    /\ ~LastSays.terminal
    /\ LastSays.completed
    /\ LastSays.flight
    /\ decision = END

\* C5: when no termination condition holds, router returns flight_agent if a
\* flight term occurs, else hotel_agent if a hotel term occurs, else
\* itinerary_agent if an itinerary term occurs, else supervisor; an empty
\* history goes to supervisor.
C5_KeywordPriority ==
    node = "routed" =>
        IF Len(messages) = 0 THEN decision = "supervisor"
        ELSE (/\ Len(messages) <= MessageCeiling
              /\ ~LastSays.terminal
              /\ ~LastSays.completed)
             => decision = (CASE LastSays.flight -> "flight_agent"
                              [] ~LastSays.flight /\ LastSays.hotel -> "hotel_agent"
                              [] ~LastSays.flight /\ ~LastSays.hotel
                                    /\ LastSays.itinerary -> "itinerary_agent"
                              [] OTHER -> "supervisor")

\* a message with hotel and itinerary terms, routed to the hotel agent
C5_Witness ==
    /\ node = "routed"
    /\ Len(messages) > 0
    /\ Len(messages) <= MessageCeiling
    /\ ~LastSays.terminal
    /\ ~LastSays.completed
    /\ ~LastSays.flight
    /\ LastSays.hotel
    /\ LastSays.itinerary
    /\ decision = "hotel_agent"

\* C7 as claimed: the node run right after a specialist is the supervisor and
\* nothing else, END is entered only from the supervisor, never directly from
\* a specialist, and the first node of a run is the supervisor.
C7_SupervisorMediatesEveryStep ==
    /\ assistant.ran = {} => assistant.scheduled \subseteq {"supervisor"}
    /\ assistant.ran \cap Specialists # {} =>
           assistant.scheduled \subseteq {"supervisor"}
    /\ assistant.entered_end_from \subseteq {"supervisor"}

\* C7 on the compiled graph of create_travel_graph alone: after a specialist
\* the supervisor runs, END is entered only on a router decision taken after
\* the supervisor, and the supervisor runs first.
C7_TravelGraphSupervisorMediates ==
    /\ prev = START => node = "supervisor"
    /\ prev \in Specialists => node = "supervisor"
    /\ node = END => prev = "supervisor" /\ decision = END
    /\ decision # "unset" => prev = "supervisor" \/ node = "supervisor"

\* C8 as claimed: when the LLM call of an agent node fails, the state carries
\* the error, the run is not ended by the failure alone, and the node that
\* runs next is the supervisor.
C8_FailureReturnsToSupervisor ==
    lastOutcome = "failed" =>
        /\ error # None
        /\ \/ node = "supervisor"
           \/ node = END /\ Len(messages) > MessageCeiling

\* C9 as claimed: after an invocation whose LLM call succeeds, error is None.
C9_ErrorClearedOnSuccess ==
    lastOutcome = "ok" => error = None

\* the system directive of each node
directive_of(name) ==
    CASE name = "supervisor" -> SUPERVISOR_PROMPT
      [] name = "flight_agent" -> FLIGHT_AGENT_PROMPT
      [] name = "hotel_agent" -> HOTEL_AGENT_PROMPT
      [] name = "itinerary_agent" -> enhanced_prompt

\* C10: every agent invocation returns the messages it received extended by
\* its own system directive and, on success, exactly one assistant message
\* (the directive alone on failure); nothing earlier is removed, reordered or
\* rewritten and the message count strictly increases.
C10_HistoryAppendOnly ==
    [][ LET n == Len(messages)
            directive == [role |-> "system", content |-> directive_of(node)]
        IN  /\ Len(messages') > n
            /\ SubSeq(messages', 1, n) = messages
            /\ messages'[n + 1] = directive
            /\ lastOutcome' = "failed" => Len(messages') = n + 1
            /\ lastOutcome' = "ok" =>
                   /\ Len(messages') = n + 2
                   /\ messages'[n + 2].role = "assistant" ]_vars

\* a failed invocation that follows a successful one
C10_Witness ==
    /\ lastOutcome = "failed"
    /\ HasAssistant
    /\ Last = [role |-> "system", content |-> directive_of(prev)]

----------------------------------------------------------------------------
(* The command-line assistant of main.py: hitl.py, tools.py and the         *)
(* tool-call processing of agents/.  A Python call either returns a value   *)
(* or raises; `handled` counts the handle_error invocations it made.        *)

Ret(v) == [kind |-> "return", value |-> v]
Raise(e) == [kind |-> "raise", error |-> e]

PyNone == [type |-> "NoneType"]
PyStr(s) == [type |-> "str", val |-> s]
PyDict(d) == [type |-> "dict", val |-> d]
PyList(l) == [type |-> "list", val |-> l]

\* str.strip() on the texts a human types
RECURSIVE strip(_)
strip(t) ==
    IF Len(t) = 0 THEN t
    ELSE IF SubSeq(t, 1, 1) = " " THEN strip(SubSeq(t, 2, Len(t)))
    ELSE IF SubSeq(t, Len(t), Len(t)) = " " THEN strip(SubSeq(t, 1, Len(t) - 1))
    ELSE t

\* int() on the texts a human types: ValueError unless the text is a number
int(t) ==
    LET digits == [d \in {"0", "1", "2", "3"} |->
                     CASE d = "0" -> 0 [] d = "1" -> 1 [] d = "2" -> 2 [] d = "3" -> 3]
        text == strip(t)
    IN  IF text \in DOMAIN digits THEN Ret(digits[text])
        ELSE Raise("invalid literal for int() with base 10")

\* dict.update
update(d, u) == u @@ d

\* str.join
RECURSIVE join(_, _)
join(sep, parts) ==
    IF parts = <<>> THEN ""
    ELSE IF Len(parts) = 1 THEN parts[1]
    ELSE parts[1] \o sep \o join(sep, Tail(parts))

\* hitl.get_human_approval
get_human_approval(cfg, response) ==
    IF ~cfg.HITL_ENABLED THEN TRUE
    ELSE strip(lower(response)) \in {"y", "yes"}

\* one pass of the input loop of get_human_selection: the option chosen,
\* or Again when the loop prompts once more
Again == [type |-> "prompt again"]

choice_of(options, text) ==
    LET choice == int(text)
    IN  IF choice.kind = "raise" THEN Again
        ELSE IF 1 <= choice.value /\ choice.value <= Len(options)
             THEN options[choice.value]
             ELSE Again

\* the loop over the texts typed so far; Again when it still waits for input
RECURSIVE input_loop(_, _)
input_loop(options, typed) ==
    IF typed = <<>> THEN Again
    ELSE LET chosen == choice_of(options, Head(typed))
         IN  IF chosen = Again THEN input_loop(options, Tail(typed)) ELSE chosen

\* hitl.get_human_selection
get_human_selection(cfg, options, typed) ==
    IF ~cfg.HITL_ENABLED
    THEN IF options # <<>> THEN options[1] ELSE PyNone
    ELSE input_loop(options, typed)

\* hitl.get_human_feedback
get_human_feedback(cfg, typed) ==
    IF ~cfg.HITL_ENABLED THEN "" ELSE strip(typed)

\* hitl.handle_error
handle_error(cfg, err, human) ==
    IF ~cfg.HITL_ENABLED
    THEN [status |-> "error", message |-> err]
    ELSE LET resolution == get_human_feedback(cfg, human.feedback)
         IN  [status |-> IF resolution # "" THEN "resolved" ELSE "error",
              original_error |-> err,
              resolution |-> resolution,
              timestamp |-> "now"]

\* f"Error: {error_resolution['message']}\nResolution: {error_resolution.get(
\* 'resolution', 'No resolution provided')}", as every caller formats it
error_text(error_resolution) ==
    IF "message" \notin DOMAIN error_resolution THEN Raise("'message'")
    ELSE Ret("Error: " \o error_resolution.message \o "\nResolution: " \o
             (IF "resolution" \in DOMAIN error_resolution
              THEN error_resolution.resolution ELSE "No resolution provided"))

\* tools.py returns two fixed flights and two fixed hotels; the provider
\* that takes its place may also find nothing or fail
Delta ==
    [airline |-> "Delta", flight_number |-> "DL1234", price |-> "$450",
     departure |-> "8:00 AM", arrival |-> "10:30 AM"]
United ==
    [airline |-> "United", flight_number |-> "UA5678", price |-> "$525",
     departure |-> "10:15 AM", arrival |-> "12:45 PM"]
GrandHotel ==
    [name |-> "Grand Hotel", price |-> "$200/night", rating |-> "4.5",
     amenities |-> <<"pool", "wifi", "breakfast">>]
ComfortSuites ==
    [name |-> "Comfort Suites", price |-> "$150/night", rating |-> "4.0",
     amenities |-> <<"wifi", "breakfast">>]

Providers == { "matches", "no matches", "unavailable" }

search_flights(provider) ==
    CASE provider = "matches" -> Ret(<<Delta, United>>)
      [] provider = "no matches" -> Ret(<<>>)
      [] provider = "unavailable" -> Raise("Provider unavailable")

search_hotels(provider) ==
    CASE provider = "matches" -> Ret(<<GrandHotel, ComfortSuites>>)
      [] provider = "no matches" -> Ret(<<>>)
      [] provider = "unavailable" -> Raise("Provider unavailable")

get_destination_info(destination) ==
    [name |-> destination,
     description |-> "A popular destination with many attractions.",
     timezone |-> "GMT-5", currency |-> "USD", languages |-> <<"English">>]

\* params[k] for the keys in the order the code reads them: KeyError on the
\* first key that is missing
missing_key(params, keys) ==
    LET absent == { i \in 1..Len(keys) : keys[i] \notin DOMAIN params }
    IN  IF absent = {} THEN None
        ELSE keys[CHOOSE i \in absent : \A j \in absent : i <= j]

key_error(k) == Raise("'" \o k \o "'")

\* the except clause of handle_search_flights / handle_search_hotels
search_failed(cfg, err, human, handled) ==
    error_text(handle_error(cfg, err, human)) @@ [handled |-> handled + 1]

\* the try / except of handle_search_flights and handle_search_hotels around
\* the outcome `tried` of the try block
handled_by_agent(cfg, tried, human) ==
    IF tried.kind = "return" THEN tried
    ELSE search_failed(cfg, tried.error, human, tried.handled)

\* the text handle_search_flights returns after the selection
flight_details(selected_flight) ==
    IF selected_flight = PyNone THEN Ret("No flight was selected.")
    ELSE Ret("Selected flight details:\n"
             \o "- Airline: " \o selected_flight.airline \o "\n"
             \o "- Flight: " \o selected_flight.flight_number \o "\n"
             \o "- Price: " \o selected_flight.price \o "\n"
             \o "- Departure: " \o selected_flight.departure \o "\n"
             \o "- Arrival: " \o selected_flight.arrival \o "\n")

\* agents/flight_agent.handle_search_flights
handle_search_flights(cfg, params, provider, human) ==
    LET absent == missing_key(params, <<"origin", "destination",
                                        "departure_date", "return_date">>)
        flights == search_flights(provider)
    IN  handled_by_agent(cfg,
            IF absent # None THEN key_error(absent) @@ [handled |-> 0]
            ELSE IF flights.kind = "raise" THEN flights @@ [handled |-> 0]
            ELSE IF flights.value = <<>>
            THEN error_text(handle_error(cfg,
                     "No flights found matching your criteria", human))
                 @@ [handled |-> 1]
            ELSE flight_details(get_human_selection(cfg, flights.value,
                                                    human.choices))
                 @@ [handled |-> 0],
            human)

\* the text handle_search_hotels returns after the selection
hotel_details(selected_hotel) ==
    IF selected_hotel = PyNone THEN Ret("No hotel was selected.")
    ELSE Ret("Selected hotel details:\n"
             \o "- Name: " \o selected_hotel.name \o "\n"
             \o "- Price: " \o selected_hotel.price \o "\n"
             \o "- Rating: " \o selected_hotel.rating \o " stars\n"
             \o "- Amenities: " \o join(", ", selected_hotel.amenities)
             \o "\n")

\* agents/hotel_agent.handle_search_hotels
handle_search_hotels(cfg, params, provider, human) ==
    LET absent == missing_key(params, <<"location", "check_in", "check_out">>)
        hotels == search_hotels(provider)
    IN  handled_by_agent(cfg,
            IF absent # None THEN key_error(absent) @@ [handled |-> 0]
            ELSE IF hotels.kind = "raise" THEN hotels @@ [handled |-> 0]
            ELSE IF hotels.value = <<>>
            THEN error_text(handle_error(cfg,
                     "No hotels found matching your criteria", human))
                 @@ [handled |-> 1]
            ELSE hotel_details(get_human_selection(cfg, hotels.value,
                                                   human.choices))
                 @@ [handled |-> 0],
            human)

\* eval() of the argument texts the LLM sends with a tool call
flight_args == "{\"origin\": \"NYC\", \"destination\": \"LAX\", \"departure_date\": \"2025-06-01\", \"return_date\": \"2025-06-08\"}"
flight_args_blank == "{\"origin\": \"\", \"destination\": \"PAR\", \"departure_date\": \"2025-07-01\", \"return_date\": \"\"}"
flight_args_short == "{\"origin\": \"NYC\", \"destination\": \"LAX\", \"departure_date\": \"2025-06-01\"}"
flight_args_json == "{\"origin\": \"NYC\", \"destination\": \"LAX\", \"departure_date\": \"2025-06-01\", \"return_date\": \"2025-06-08\", \"budget\": null}"
hotel_args == "{\"location\": \"LAX\", \"check_in\": \"2025-06-01\", \"check_out\": \"2025-06-08\"}"
hotel_args_blank == "{\"location\": \"\", \"check_in\": \"2025-06-01\", \"check_out\": \"2025-06-08\"}"
destination_args == "{\"destination\": \"LAX\"}"
to_itinerary_args == "{\"to\": \"itinerary_agent\"}"
to_flight_args == "{\"to\": \"flight_agent\"}"

eval(arguments) ==
    CASE arguments = flight_args ->
           Ret([origin |-> "NYC", destination |-> "LAX",
                departure_date |-> "2025-06-01", return_date |-> "2025-06-08"])
      [] arguments = flight_args_blank ->
           Ret([origin |-> "", destination |-> "PAR",
                departure_date |-> "2025-07-01", return_date |-> ""])
      [] arguments = flight_args_short ->
           Ret([origin |-> "NYC", destination |-> "LAX",
                departure_date |-> "2025-06-01"])
      [] arguments = flight_args_json ->
           Raise("name 'null' is not defined")
      [] arguments = hotel_args ->
           Ret([location |-> "LAX", check_in |-> "2025-06-01",
                check_out |-> "2025-06-08"])
      [] arguments = hotel_args_blank ->
           Ret([location |-> "", check_in |-> "2025-06-01",
                check_out |-> "2025-06-08"])
      [] arguments = destination_args -> Ret([destination |-> "LAX"])
      [] arguments = to_itinerary_args -> Ret([to |-> "itinerary_agent"])
      [] arguments = to_flight_args -> Ret([to |-> "flight_agent"])

\* conversation_state as the module is imported
initial_conversation_state ==
    [flight_options |-> PyNone,
     hotel_options |-> PyNone,
     user_preferences |-> <<>>,
     error_history |-> <<>>,
     human_feedback |-> <<>>]

\* a log that keeps the latest error only
record_error_keeps_latest(cs, entry) ==
    [cs EXCEPT !.error_history = <<entry>>]

\* conversation_state["error_history"].append(...)
record_error(cs, entry) ==
    [cs EXCEPT !.error_history = Append(@, entry)]

\* the running values of one process_tool_calls invocation
started(cs) ==
    [conversation_state |-> cs,
     tool_outputs |-> <<>>,
     flow |-> "next",
     next_agent |-> None,
     raised |-> None,
     caught |-> <<>>,
     handled |-> 0]

output(acc, tool_call, text) ==
    Append(acc.tool_outputs, [tool_call_id |-> tool_call.id, output |-> text])

\* the except clause of process_tool_calls
tool_call_failed(cfg, acc, tool_call, err, handled, human) ==
    LET error_resolution == handle_error(cfg, err, human)
        function_name == tool_call.function.name
        logged == [acc EXCEPT
                     !.conversation_state =
                         record_error(@, [tool |-> function_name,
                                          error |-> err,
                                          resolution |-> error_resolution]),
                     !.caught = Append(@, [tool |-> function_name, error |-> err]),
                     !.handled = @ + handled + 1]
        text == error_text(error_resolution)
    IN  IF text.kind = "raise"
        THEN [logged EXCEPT !.flow = "raise", !.raised = text.error]
        ELSE [logged EXCEPT !.tool_outputs = output(acc, tool_call, PyStr(text.value))]

\* the search_flights branch once handle_search_flights has ended with `result`
flights_searched(cfg, acc, tool_call, function_args, result, human) ==
    LET absent == missing_key(function_args,
                     <<"origin", "destination", "departure_date", "return_date">>)
        stored == [acc EXCEPT !.conversation_state.flight_options =
                                  PyStr(result.value)]
    IN  IF result.kind = "raise"
        THEN tool_call_failed(cfg, acc, tool_call, result.error,
                              result.handled, human)
        ELSE IF absent # None
        THEN tool_call_failed(cfg, stored, tool_call, "'" \o absent \o "'",
                              result.handled, human)
        ELSE [stored EXCEPT
                !.conversation_state.user_preferences = update(@,
                    [origin |-> function_args.origin,
                     destination |-> function_args.destination,
                     departure_date |-> function_args.departure_date,
                     return_date |-> function_args.return_date]),
                !.tool_outputs = output(acc, tool_call, PyStr(result.value)),
                !.handled = @ + result.handled]

\* the search_hotels branch once handle_search_hotels has ended with `result`
hotels_searched(cfg, acc, tool_call, function_args, result, human) ==
    LET absent == missing_key(function_args,
                     <<"location", "check_in", "check_out">>)
        stored == [acc EXCEPT !.conversation_state.hotel_options =
                                  PyStr(result.value)]
    IN  IF result.kind = "raise"
        THEN tool_call_failed(cfg, acc, tool_call, result.error,
                              result.handled, human)
        ELSE IF absent # None
        THEN tool_call_failed(cfg, stored, tool_call, "'" \o absent \o "'",
                              result.handled, human)
        ELSE [stored EXCEPT
                !.conversation_state.user_preferences = update(@,
                    [destination |-> function_args.location,
                     check_in |-> function_args.check_in,
                     check_out |-> function_args.check_out]),
                !.tool_outputs = output(acc, tool_call, PyStr(result.value)),
                !.handled = @ + result.handled]

\* the try block of the loop once eval() has given function_args
call_function(cfg, acc, tool_call, function_args, provider, human) ==
    LET function_name == tool_call.function.name
    IN  IF function_name = "handoff"
        THEN IF "to" \notin DOMAIN function_args
             THEN tool_call_failed(cfg, acc, tool_call, "'to'", 0, human)
             ELSE IF ~get_human_approval(cfg, human.approval)
             THEN [acc EXCEPT !.tool_outputs = output(acc, tool_call,
                      PyStr("Handoff was not approved by human operator."))]
             ELSE [acc EXCEPT !.tool_outputs = output(acc, tool_call,
                      PyStr("Handing off to " \o function_args.to)),
                              !.flow = "return",
                              !.next_agent = function_args.to]
        ELSE IF function_name = "search_flights"
        THEN flights_searched(cfg, acc, tool_call, function_args,
                 handle_search_flights(cfg, function_args, provider, human),
                 human)
        ELSE IF function_name = "search_hotels"
        THEN hotels_searched(cfg, acc, tool_call, function_args,
                 handle_search_hotels(cfg, function_args, provider, human),
                 human)
        ELSE IF function_name = "get_destination_info"
        THEN [acc EXCEPT !.tool_outputs = output(acc, tool_call,
                 PyDict(get_destination_info(function_args)))]
        ELSE acc

\* function_args = eval(tool_call["function"]["arguments"]), then the try block
evaluated_call(cfg, acc, tool_call, evaluated, provider, human) ==
    IF evaluated.kind = "raise"
    THEN tool_call_failed(cfg, acc, tool_call, evaluated.error, 0, human)
    ELSE call_function(cfg, acc, tool_call, evaluated.value, provider, human)

\* the body of the loop of process_tool_calls for one tool call
process_tool_call(cfg, acc, tool_call, provider, human) ==
    evaluated_call(cfg, acc, tool_call, eval(tool_call.function.arguments),
                   provider, human)

RECURSIVE tool_call_loop(_, _, _, _, _, _)

\* after one tool call: a return or an exception leaves the loop
next_tool_call(cfg, after, tool_calls, i, provider, human) ==
    IF after.flow = "next"
    THEN tool_call_loop(cfg, after, tool_calls, i + 1, provider, human)
    ELSE after

tool_call_loop(cfg, acc, tool_calls, i, provider, human) ==
    IF i > Len(tool_calls) THEN [acc EXCEPT !.flow = "return"]
    ELSE next_tool_call(cfg,
             process_tool_call(cfg, acc, tool_calls[i], provider, human),
             tool_calls, i, provider, human)

\* agents/supervisor.process_tool_calls
process_tool_calls(cfg, cs, tool_calls, provider, human) ==
    tool_call_loop(cfg, started(cs), tool_calls, 1, provider, human)

----------------------------------------------------------------------------
(* main.py calls process_tool_calls on the tool calls of each assistant     *)
(* message.  The provider and the human operator are the environment.       *)

\* how many assistant messages with tool calls main.py processes in a run
MaxInvocations == 2

ToolRequests ==
    { [name |-> "search_flights", arguments |-> a] :
        a \in { flight_args, flight_args_blank, flight_args_short, flight_args_json } }
    \cup { [name |-> "search_hotels", arguments |-> a] :
        a \in { hotel_args, hotel_args_blank } }
    \cup { [name |-> "get_destination_info", arguments |-> destination_args],
           [name |-> "create_itinerary", arguments |-> destination_args],
           [name |-> "handoff", arguments |-> to_itinerary_args],
           [name |-> "handoff", arguments |-> to_flight_args] }

\* the tool calls that follow another one in the same assistant message
SecondRequests ==
    { [name |-> "search_flights", arguments |-> flight_args_json],
      [name |-> "search_hotels", arguments |-> hotel_args] }

call_ids == <<"call_1", "call_2">>

tool_calls_of(requests) ==
    [i \in 1..Len(requests) |-> [id |-> call_ids[i], function |-> requests[i]]]

\* one tool call, or two tool calls in one assistant message
ToolCallBatches ==
    { tool_calls_of(<<r>>) : r \in ToolRequests }
    \cup { tool_calls_of(<<r, q>>) : r \in ToolRequests, q \in SecondRequests }

Humans ==
    { [approval |-> "yes", choices |-> <<"1">>, feedback |-> ""],
      [approval |-> " No ", choices |-> <<"abc", "0", " 2">>,
       feedback |-> " search again later "] }

InitTools ==
    /\ config \in { [HITL_ENABLED |-> e, HITL_MODE |-> "streamlit"] : e \in BOOLEAN }
    /\ conversation_state = initial_conversation_state
    /\ last_call = [invocations |-> 0]
    /\ hitl = not_started
    /\ session = not_started
    /\ serp = not_started
    /\ cli = not_started
    /\ itinerary_call = not_started
    /\ messages = <<>>
    /\ error = None
    /\ node = "main"
    /\ decision = "unset"
    /\ turn = 0
    /\ prev = START
    /\ lastOutcome = "none"
    /\ assistant = not_built

ProcessToolCalls(tool_calls, provider, human) ==
    /\ node = "main"
    /\ last_call.invocations < MaxInvocations
    /\ LET done == process_tool_calls(config, conversation_state, tool_calls,
                                      provider, human)
       IN  /\ conversation_state' = done.conversation_state
           /\ last_call' = [invocations |-> last_call.invocations + 1,
                            tool_calls |-> tool_calls,
                            provider |-> provider,
                            tool_outputs |-> done.tool_outputs,
                            next_agent |-> done.next_agent,
                            raised |-> done.raised,
                            caught |-> done.caught,
                            handled |-> done.handled]
    /\ UNCHANGED <<messages, error, node, decision, turn, prev, lastOutcome,
                   assistant, config, hitl, session, serp,
                cli, itinerary_call>>

NextTools ==
    \E tool_calls \in ToolCallBatches, provider \in Providers, human \in Humans :
        ProcessToolCalls(tool_calls, provider, human)

SpecTools == InitTools /\ [][NextTools]_vars

----------------------------------------------------------------------------
(* The human-interaction calls of hitl.py and of booking_agent.py, one call  *)
(* at a time.  hitl.py reads the terminal whenever HITL is enabled;          *)
(* booking_agent.py reads the terminal in "cli" mode and keeps a request     *)
(* record in st.session_state in "streamlit" mode, where every rerun of the  *)
(* script calls the function again.  elapsed counts the seconds since the    *)
(* call began.                                                               *)

HITL_TIMEOUT == 300

\* how many human-interaction calls one run makes
MaxHitlCalls == 2

\* how many texts the operator types into one prompt
MaxTyped == 2

PyBool(b) == [type |-> "bool", val |-> b]

HitlModules == { "hitl", "booking_agent" }

HitlKinds(module) ==
    IF module = "hitl" THEN { "approval", "selection", "error", "feedback" }
    ELSE { "approval", "selection", "error" }

OptionLists == { <<>>, <<Delta>>, <<Delta, United>> }

TypedTexts == { "yes", " No ", "1", "2", "" }

the_error == "Provider unavailable"

\* 'streamlit' in sys.modules and HITL_MODE == "streamlit": booking_agent.py
\* imports streamlit itself
in_streamlit(cfg, module) ==
    module = "booking_agent" /\ cfg.HITL_MODE = "streamlit"

selection_value(chosen) == IF chosen = PyNone THEN PyNone ELSE PyDict(chosen)

\* what a call returns without asking: HITL disabled, or the request of
\* booking_agent.py timed out
default_of(kind, options) ==
    CASE kind = "approval" -> PyBool(TRUE)
      [] kind = "selection" ->
           selection_value(IF options # <<>> THEN options[1] ELSE PyNone)
      [] kind = "error" -> PyDict([status |-> "error", message |-> the_error])
      [] kind = "feedback" -> PyStr("")

\* what a call does with one text read from the terminal: the value it
\* returns, or Again when it prompts once more
on_input(kind, options, text) ==
    LET enabled == [HITL_ENABLED |-> TRUE, HITL_MODE |-> "cli"]
    IN  CASE kind = "approval" -> PyBool(get_human_approval(enabled, text))
          [] kind = "selection" ->
               LET chosen == choice_of(options, text)
               IN  IF chosen = Again THEN Again ELSE selection_value(chosen)
          [] kind = "error" ->
               PyDict(handle_error(enabled, the_error, [feedback |-> text]))
          [] kind = "feedback" -> PyStr(get_human_feedback(enabled, text))

no_requests == [approval |-> "absent", selection |-> "absent", error |-> "absent"]

InitHitl ==
    /\ config \in { [HITL_ENABLED |-> e, HITL_MODE |-> m] :
                      e \in BOOLEAN, m \in { "cli", "streamlit" } }
    /\ hitl = [status |-> "idle", calls |-> 0, requests |-> no_requests]
    /\ conversation_state = not_started
    /\ last_call = not_started
    /\ session = not_started
    /\ serp = not_started
    /\ cli = not_started
    /\ itinerary_call = not_started
    /\ messages = <<>>
    /\ error = None
    /\ node = "hitl"
    /\ decision = "unset"
    /\ turn = 0
    /\ prev = START
    /\ lastOutcome = "none"
    /\ assistant = not_built

hitl_unchanged ==
    UNCHANGED <<messages, error, node, decision, turn, prev, lastOutcome,
                assistant, config, conversation_state, last_call, session, serp,
                cli, itinerary_call>>

\* a call that has ended: by "default" when HITL is disabled, on an "input"
\* of the operator, by "timeout", or by an "exception"
ended(call, how, value) ==
    [module |-> call.module, kind |-> call.kind, options |-> call.options,
     calls |-> call.calls, requests |-> call.requests,
     status |-> IF how = "exception" THEN "raised" ELSE "returned",
     how |-> how, result |-> value]

\* the program calls get_human_approval, get_human_selection, handle_error
\* or get_human_feedback
HitlCall(module, kind, options) ==
    /\ node = "hitl"
    /\ hitl.status # "waiting"
    /\ hitl.calls < MaxHitlCalls
    /\ hitl' =
         LET call == [module |-> module, kind |-> kind, options |-> options,
                      calls |-> hitl.calls + 1, requests |-> hitl.requests,
                      status |-> "waiting", elapsed |-> 0, typed |-> 0]
         IN  IF ~config.HITL_ENABLED
             THEN ended(call, "default", default_of(kind, options))
             ELSE IF ~in_streamlit(config, module)
             THEN call
             ELSE IF hitl.requests[kind] = "absent"
             THEN [call EXCEPT !.requests[kind] = "pending"]
             ELSE ended(call, "exception",
                        PyStr("'NoneType' object is not subscriptable"))
    /\ hitl_unchanged

\* the operator types a text at the prompt of input()
HitlInput(text) ==
    /\ node = "hitl"
    /\ hitl.status = "waiting"
    /\ ~in_streamlit(config, hitl.module)
    /\ hitl.typed < MaxTyped
    /\ hitl' =
         LET value == on_input(hitl.kind, hitl.options, text)
         IN  IF value = Again
             THEN [hitl EXCEPT !.typed = @ + 1]
             ELSE ended(hitl, "input", value)
    /\ hitl_unchanged

\* the script reruns and calls the function again while its request is
\* pending: nothing in the application resolves a request, so the call
\* returns its default after the timeout and sleeps a second otherwise
HitlRerun ==
    /\ node = "hitl"
    /\ hitl.status = "waiting"
    /\ in_streamlit(config, hitl.module)
    /\ hitl' =
         IF hitl.elapsed > HITL_TIMEOUT
         THEN ended([hitl EXCEPT !.requests[hitl.kind] = "None"], "timeout",
                    default_of(hitl.kind, hitl.options))
         ELSE [hitl EXCEPT !.elapsed = @ + 1]
    /\ hitl_unchanged

\* a second passes while a call waits
Tick ==
    /\ node = "hitl"
    /\ hitl.status = "waiting"
    /\ hitl.elapsed <= HITL_TIMEOUT
    /\ hitl' = [hitl EXCEPT !.elapsed = @ + 1]
    /\ hitl_unchanged

NextHitl ==
    \/ \E module \in HitlModules :
         \E kind \in HitlKinds(module), options \in OptionLists :
            HitlCall(module, kind, options)
    \/ \E text \in TypedTexts : HitlInput(text)
    \/ HitlRerun
    \/ Tick

SpecHitl == InitHitl /\ [][NextHitl]_vars

\* the program and the clock go on; the operator may never answer
FairSpecHitl == SpecHitl /\ WF_vars(HitlRerun) /\ WF_vars(Tick)

----------------------------------------------------------------------------
(* The two front ends of the travel graph.  process_message of app.py keeps  *)
(* one TravelState in st.session_state: the first message creates it, every *)
(* later message is appended to it, and the graph is streamed on it; the     *)
(* events of the stream carry no "type" entry, so the state kept in the      *)
(* session is never replaced by the state the graph reached.  The loop of    *)
(* main() in booking_agent.py creates a new TravelState for every input.     *)

\* how many user messages one session submits
MaxStreams == 2

Fronts == { "app", "main" }

\* LLM answers during a session
SessionSupervisorTexts ==
    { "I will look into flight options for you.",
      "Let me check Hotel availability.",
      "Goodbye!" }

InitSession ==
    /\ session \in { [front |-> f, travel_state |-> <<>>, inputs |-> 0, streams |-> 0] :
                       f \in Fronts }
    /\ messages = <<>>
    /\ error = None
    /\ node = "idle"
    /\ decision = "unset"
    /\ turn = 0
    /\ prev = START
    /\ lastOutcome = "none"
    /\ assistant = not_built
    /\ config = shipped_config
    /\ conversation_state = not_started
    /\ last_call = not_started
    /\ hitl = not_started
    /\ serp = not_started
    /\ cli = not_started
    /\ itinerary_call = not_started

\* graph.stream(state) starts a run of the compiled graph on the state
stream(state_messages) ==
    /\ messages' = state_messages
    /\ error' = None
    /\ node' = "supervisor"
    /\ decision' = "unset"
    /\ turn' = 0
    /\ prev' = START
    /\ lastOutcome' = "none"
    /\ UNCHANGED <<assistant, config, conversation_state, last_call, hitl, serp,
                cli, itinerary_call>>

\* app.process_message
ProcessMessage(user_input) ==
    /\ session.front = "app"
    /\ node \in { "idle", END }
    /\ session.inputs < MaxStreams
    /\ LET message == [role |-> "user", content |-> user_input]
           fresh == session.travel_state = <<>>
           state_messages == IF fresh THEN <<message>>
                             ELSE Append(session.travel_state, message)
       IN  /\ session' = [session EXCEPT
                            !.travel_state = state_messages,
                            !.inputs = @ + 1,
                            !.streams = IF fresh THEN 1 ELSE @ + 1]
           /\ stream(state_messages)

\* one pass of the loop of main() in booking_agent.py
MainInput(user_input) ==
    /\ session.front = "main"
    /\ node \in { "idle", END }
    /\ session.inputs < MaxStreams
    /\ LET state_messages == << [role |-> "user", content |-> user_input] >>
       IN  /\ session' = [session EXCEPT
                            !.travel_state = state_messages,
                            !.inputs = @ + 1,
                            !.streams = 1]
           /\ stream(state_messages)

NextSession ==
    \/ \E user_input \in UserMessages : ProcessMessage(user_input)
    \/ \E user_input \in UserMessages : MainInput(user_input)
    \/ \E llm \in Outcomes(SessionSupervisorTexts) : Supervisor(llm)
    \/ \E llm \in Outcomes(SearchAgentTexts) : Flight(llm)
    \/ \E llm \in Outcomes(SearchAgentTexts) : Hotel(llm)
    \/ \E llm \in Outcomes(ItineraryTexts) : Itinerary(llm)

SpecSession == InitSession /\ [][NextSession]_vars

----------------------------------------------------------------------------
(* app.py: the Streamlit front end.  st.session_state of one browser       *)
(* session is the record `session`; the texts below are single lines, so    *)
(* `.` of a regular expression matches every character of them.             *)

UpperChar(c) ==
    CASE c = "a" -> "A" [] c = "b" -> "B" [] c = "c" -> "C" [] c = "d" -> "D"
      [] c = "e" -> "E" [] c = "f" -> "F" [] c = "g" -> "G" [] c = "h" -> "H"
      [] c = "i" -> "I" [] c = "j" -> "J" [] c = "k" -> "K" [] c = "l" -> "L"
      [] c = "m" -> "M" [] c = "n" -> "N" [] c = "o" -> "O" [] c = "p" -> "P"
      [] c = "q" -> "Q" [] c = "r" -> "R" [] c = "s" -> "S" [] c = "t" -> "T"
      [] c = "u" -> "U" [] c = "v" -> "V" [] c = "w" -> "W" [] c = "x" -> "X"
      [] c = "y" -> "Y" [] c = "z" -> "Z" [] OTHER -> c

\* str.upper()
RECURSIVE upper(_)
upper(t) ==
    IF Len(t) = 0 THEN ""
    ELSE IF Len(t) = 1 THEN UpperChar(t)
    ELSE LET h == Len(t) \div 2
         IN  upper(SubSeq(t, 1, h)) \o upper(SubSeq(t, h + 1, Len(t)))

\* the characters \d and \w of a regular expression match
Digits == { "0", "1", "2", "3", "4", "5", "6", "7", "8", "9" }

Letters ==
    { "a", "b", "c", "d", "e", "f", "g", "h", "i", "j", "k", "l", "m",
      "n", "o", "p", "q", "r", "s", "t", "u", "v", "w", "x", "y", "z" }

IsWordChar(c) == c \in Digits \/ LowerChar(c) \in Letters \/ c = "_"

\* str.find, counted from 1: 0 when p does not occur in t
find(p, t) ==
    LET hits == { i \in 1..(Len(t) - Len(p) + 1) : SubSeq(t, i, i + Len(p) - 1) = p }
    IN  IF hits = {} THEN 0 ELSE CHOOSE i \in hits : \A j \in hits : i <= j

\* t.split(p)[0]
first_part(p, t) ==
    IF find(p, t) = 0 THEN t ELSE SubSeq(t, 1, find(p, t) - 1)

\* t.split(p)[1], for a text t in which p occurs
second_part(p, t) ==
    first_part(p, SubSeq(t, find(p, t) + Len(p), Len(t)))

\* str.rstrip(chars)
RECURSIVE rstrip(_, _)
rstrip(t, chars) ==
    IF Len(t) > 0 /\ SubSeq(t, Len(t), Len(t)) \in chars
    THEN rstrip(SubSeq(t, 1, Len(t) - 1), chars)
    ELSE t

\* the place name extract_travel_info reads after a keyword ("from ", "to "):
\* None when the keyword is absent or the word after it has fewer than two
\* characters
place_after(keyword, message) ==
    IF ~Contains(keyword, lower(message)) THEN None
    ELSE LET next_part == first_part(" ", second_part(keyword, lower(message)))
             potential == rstrip(strip(next_part), {",", ".", "?", "!", ":", ";"})
         IN  IF Len(potential) > 1 THEN upper(potential) ELSE None

\* r'\b\d{4}-\d{2}-\d{2}\b' matches at position i of t
date_at(t, i) ==
    /\ i + 9 <= Len(t)
    /\ \A k \in 0..9 :
         IF k \in {4, 7} THEN SubSeq(t, i + k, i + k) = "-"
         ELSE SubSeq(t, i + k, i + k) \in Digits
    /\ i = 1 \/ ~IsWordChar(SubSeq(t, i - 1, i - 1))
    /\ i + 9 = Len(t) \/ ~IsWordChar(SubSeq(t, i + 10, i + 10))

\* re.findall(date_pattern, t), scanning from position i
RECURSIVE findall_dates(_, _)
findall_dates(t, i) ==
    IF i + 9 > Len(t) THEN <<>>
    ELSE IF date_at(t, i) THEN <<SubSeq(t, i, i + 9)>> \o findall_dates(t, i + 10)
    ELSE findall_dates(t, i + 1)

\* the digits that (\d+) takes from position i on
RECURSIVE digit_run(_, _)
digit_run(t, i) ==
    IF i <= Len(t) /\ SubSeq(t, i, i) \in Digits
    THEN SubSeq(t, i, i) \o digit_run(t, i + 1)
    ELSE ""

\* the first position from i on that holds a digit, 0 when there is none
first_digit(t, i) ==
    LET hits == { j \in i..Len(t) : SubSeq(t, j, j) \in Digits }
    IN  IF hits = {} THEN 0 ELSE CHOOSE j \in hits : \A k \in hits : j <= k

\* re.search(word + r'.*?(\d+)', t): group 1, None without a match
digits_after(word, t) ==
    IF find(word, t) = 0 THEN None
    ELSE IF first_digit(t, find(word, t) + Len(word)) = 0 THEN None
    ELSE digit_run(t, first_digit(t, find(word, t) + Len(word)))

\* re.search(r'(\d+).*?' + word, t): group 1, None without a match
digits_before(word, t) ==
    IF first_digit(t, 1) = 0 THEN None
    ELSE IF ~Contains(word, SubSeq(t, first_digit(t, 1), Len(t))) THEN None
    ELSE digit_run(t, first_digit(t, 1))

\* re.search(word + r'(\d+)', t): group 1, None without a match
digits_next_to(word, t) ==
    LET hits == { i \in 1..(Len(t) - Len(word)) :
                    /\ SubSeq(t, i, i + Len(word) - 1) = word
                    /\ SubSeq(t, i + Len(word), i + Len(word)) \in Digits }
    IN  IF hits = {} THEN None
        ELSE digit_run(t, Len(word) + CHOOSE i \in hits : \A j \in hits : i <= j)

\* the first pattern of the list that matches gives the value
RECURSIVE first_match(_)
first_match(groups) ==
    IF groups = <<>> THEN None
    ELSE IF Head(groups) # None THEN Head(groups)
    ELSE first_match(Tail(groups))

budget_in(message) ==
    first_match(<< digits_after("budget", lower(message)),
                   digits_before("budget", lower(message)),
                   digits_next_to("around ", lower(message)),
                   digits_next_to("about ", lower(message)) >>)

travelers_in(message) ==
    first_match(<< digits_before("traveler", lower(message)),
                   digits_before("people", lower(message)),
                   digits_before("person", lower(message)),
                   digits_next_to("for ", lower(message)) >>)

PyInt(n) == [type |-> "int", val |-> n]

\* str() of the small numbers the messages show
str(n) ==
    CASE n = 0 -> "0" [] n = 1 -> "1" [] n = 2 -> "2" [] n = 3 -> "3"

\* the entries of st.session_state that app.py creates when a session begins
initial_session_state ==
    [messages |-> <<>>,
     travel_state |-> <<>>,
     pending_message |-> None,
     is_processing |-> FALSE,
     search_results |-> [flights |-> <<>>, hotels |-> <<>>,
                         destination_info |-> PyDict(<<>>)],
     extracted_info |-> [origin |-> "", destination |-> "",
                         departure_date |-> "", return_date |-> "",
                         budget |-> "", travelers |-> PyInt(1),
                         preferences |-> ""],
     chat_stage |-> "initial"]

\* a value that replaces the old one only when the message holds one
found(value, old) == IF value # None THEN value ELSE old

\* the dates of extract_travel_info: two or more set both, one sets the departure
with_dates(info, dates) ==
    IF Len(dates) >= 2
    THEN [info EXCEPT !.departure_date = dates[1], !.return_date = dates[2]]
    ELSE IF Len(dates) = 1 THEN [info EXCEPT !.departure_date = dates[1]]
    ELSE info

\* the info dict extract_travel_info stores for a message
extracted_from(info, message) ==
    with_dates(
        [info EXCEPT
           !.origin = found(place_after("from ", message), @),
           !.destination = found(place_after("to ", message), @),
           !.budget = found(budget_in(message), @),
           !.travelers = IF travelers_in(message) # None
                         THEN PyStr(travelers_in(message)) ELSE @],
        findall_dates(message, 1))

\* a test that asks for one date only
enough_without_return_date(info) ==
    /\ info.origin # ""
    /\ info.destination # ""
    /\ info.departure_date # ""

\* `info["origin"] and info["destination"] and info["departure_date"] and
\* info["return_date"]`
enough(info) ==
    /\ info.origin # ""
    /\ info.destination # ""
    /\ info.departure_date # ""
    /\ info.return_date # ""

\* extract_travel_info once the new info dict is known
travel_info_stored(ss, info) ==
    [ss EXCEPT !.extracted_info = info,
               !.chat_stage = IF enough(info) THEN "ready_to_search" ELSE @]

\* app.extract_travel_info
extract_travel_info(ss, message) ==
    travel_info_stored(ss, extracted_from(ss.extracted_info, message))

\* st.session_state.messages.append({"role": "assistant", "content": content})
say(ss, content) ==
    [ss EXCEPT !.messages = Append(@, [role |-> "assistant", content |-> content])]

search_error(e) ==
    "I encountered an error while searching. Please check your search parameters or try again later. Error: " \o e

flights_msg(flights) ==
    IF flights # <<>> THEN "I found " \o str(Len(flights)) \o " flight options"
    ELSE "I couldn't find any flights matching your criteria"

hotels_msg(hotels) ==
    IF hotels # <<>> THEN "and " \o str(Len(hotels)) \o " hotel options"
    ELSE "but couldn't find any hotels matching your criteria"

\* app.search_travel_options; flights, hotels and destination_info are the
\* outcomes of search_flights_serp, search_hotels_serp and
\* get_destination_info_serp, each called only when the one before returned
search_travel_options(ss, flights, hotels, destination_info) ==
    IF ~enough(ss.extracted_info)
    THEN say(ss, "I need more information before I can search. Please provide origin, destination, departure date, and return date.")
    ELSE IF flights.kind = "raise" THEN say(ss, search_error(flights.error))
    ELSE IF hotels.kind = "raise"
    THEN say([ss EXCEPT !.search_results.flights = flights.value],
             search_error(hotels.error))
    ELSE IF destination_info.kind = "raise"
    THEN say([ss EXCEPT !.search_results.flights = flights.value,
                        !.search_results.hotels = hotels.value],
             search_error(destination_info.error))
    ELSE say([ss EXCEPT !.search_results.flights = flights.value,
                        !.search_results.hotels = hotels.value,
                        !.search_results.destination_info = destination_info.value,
                        !.chat_stage = "results"],
             "I've completed my search! " \o flights_msg(flights.value) \o " "
             \o hotels_msg(hotels.value)
             \o ". Please review the options below and let me know if you'd like to make any adjustments.")

\* how many of the three provider functions search_travel_options calls
searches_made(ss, flights, hotels) ==
    IF ~enough(ss.extracted_info) THEN 0
    ELSE IF flights.kind = "raise" THEN 1
    ELSE IF hotels.kind = "raise" THEN 2
    ELSE 3

----------------------------------------------------------------------------
(* extract_travel_info and search_travel_options called on a session in any  *)
(* order.  `calls` and `last` are history: the number of calls so far and    *)
(* what the latest call was and did.                                         *)

\* how many calls of the two functions a run makes
MaxAppCalls == 3

\* texts of the assistant messages that reach extract_travel_info
AssistantTexts ==
    { "I found flights from Mumbai to Delhi, 2025-06-15 to 2025-06-20, with a budget of 50000 for 2 people.",
      "Where would you like to go?",
      "Leaving from Pune on 2025-07-01.",
      "Flying from A to B soon!",
      "Returning to Mumbai, 2025-06-15 and 2025-06-20." }

\* what the three provider functions do without SERPAPI_API_KEY
no_credentials == Raise("SERPAPI_API_KEY is not set in environment variables")

SampleFlight == [airline |-> "Sample Airline", price |-> 4500]
FoundHotel == [name |-> "Unknown Hotel", price_per_night |-> 3000]

FlightOutcomes == { Ret(<<>>), Ret(<<SampleFlight>>), no_credentials }
HotelOutcomes == { Ret(<<>>), Ret(<<FoundHotel>>), no_credentials }
DestinationOutcomes ==
    { Ret(PyDict(<<>>)), Ret(PyDict([name |-> "DELHI", description |-> ""])),
      no_credentials }

InitTravelInfo ==
    /\ session = initial_session_state @@ [calls |-> 0, last |-> [op |-> "none"]]
    /\ messages = <<>>
    /\ error = None
    /\ node = "app"
    /\ decision = "unset"
    /\ turn = 0
    /\ prev = START
    /\ lastOutcome = "none"
    /\ assistant = not_built
    /\ config = shipped_config
    /\ conversation_state = not_started
    /\ last_call = not_started
    /\ hitl = not_started
    /\ serp = not_started
    /\ cli = not_started
    /\ itinerary_call = not_started

session_only ==
    UNCHANGED <<messages, error, node, decision, turn, prev, lastOutcome,
                assistant, config, conversation_state, last_call, hitl, serp,
                cli, itinerary_call>>

ExtractTravelInfo(message) ==
    /\ node = "app"
    /\ session.calls < MaxAppCalls
    /\ session' = [extract_travel_info(session, message) EXCEPT
                     !.calls = @ + 1,
                     !.last = [op |-> "extract_travel_info"]]
    /\ session_only

SearchTravelOptions(flights, hotels, destination_info) ==
    /\ node = "app"
    /\ session.calls < MaxAppCalls
    /\ session' = [search_travel_options(session, flights, hotels, destination_info)
                   EXCEPT
                     !.calls = @ + 1,
                     !.last = [op |-> "search_travel_options",
                               searches |-> searches_made(session, flights, hotels)]]
    /\ session_only

NextTravelInfo ==
    \/ \E message \in AssistantTexts : ExtractTravelInfo(message)
    \/ \E flights \in FlightOutcomes, hotels \in HotelOutcomes,
          destination_info \in DestinationOutcomes :
          SearchTravelOptions(flights, hotels, destination_info)

SpecTravelInfo == InitTravelInfo /\ [][NextTravelInfo]_vars

----------------------------------------------------------------------------
(* booking_agent.py: the SerpAPI functions and their cache.  A file of      *)
(* CACHE_DIR holds the time it was written and the cached value; `serp`      *)
(* holds the files by query hash, the clock in seconds and, as history, the  *)
(* latest call.  DEBUG is the module constant of booking_agent.py:40.        *)

SERPAPI_CACHE_DURATION == 3600

DEBUG == TRUE

\* `budget_value = 5000` when no budget is given
DefaultBudget == 5000

\* the truth value Python gives None, a str, an int or a dict
truthy(v) ==
    CASE v.type = "NoneType" -> FALSE
      [] v.type = "str" -> v.val # ""
      [] v.type = "int" -> v.val # 0
      [] v.type = "dict" -> DOMAIN v.val # {}

\* str.split(sep)
RECURSIVE split(_, _)
split(sep, t) ==
    IF find(sep, t) = 0 THEN <<t>>
    ELSE <<SubSeq(t, 1, find(sep, t) - 1)>>
         \o split(sep, SubSeq(t, find(sep, t) + Len(sep), Len(t)))

\* ''.join(filter(str.isdigit, t))
RECURSIVE only_digits(_)
only_digits(t) ==
    IF Len(t) = 0 THEN ""
    ELSE IF SubSeq(t, 1, 1) \in Digits
    THEN SubSeq(t, 1, 1) \o only_digits(SubSeq(t, 2, Len(t)))
    ELSE only_digits(SubSeq(t, 2, Len(t)))

DigitValue(c) ==
    CASE c = "0" -> 0 [] c = "1" -> 1 [] c = "2" -> 2 [] c = "3" -> 3
      [] c = "4" -> 4 [] c = "5" -> 5 [] c = "6" -> 6 [] c = "7" -> 7
      [] c = "8" -> 8 [] c = "9" -> 9

\* int() of a non-empty text of digits
RECURSIVE decimal(_)
decimal(t) ==
    IF Len(t) = 1 THEN DigitValue(t)
    ELSE 10 * decimal(SubSeq(t, 1, Len(t) - 1)) + DigitValue(SubSeq(t, Len(t), Len(t)))

\* _cache_results: the cache directory after the write
cache_results(cache, now, query_hash, results) ==
    (query_hash :> [timestamp |-> now, results |-> results]) @@ cache

\* _get_cached_results
get_cached_results(cache, now, query_hash) ==
    IF query_hash \notin DOMAIN cache THEN PyNone
    ELSE IF now - cache[query_hash].timestamp > SERPAPI_CACHE_DURATION THEN PyNone
    ELSE cache[query_hash].results

\* the budget_value of search_flights_serp
budget_value(budget) ==
    IF ~truthy(budget) THEN DefaultBudget
    ELSE IF budget.type = "int" THEN budget.val
    ELSE IF only_digits(budget.val) = "" THEN DefaultBudget
    ELSE decimal(only_digits(budget.val))

\* the price the code reads from a flight of response["flights_results"]
listed_price(flight) ==
    IF "price" \in DOMAIN flight /\ "total" \in DOMAIN flight.price
       /\ "amount" \in DOMAIN flight.price.total
    THEN flight.price.total.amount ELSE 0

\* the entry appended for a flight of response["flights_results"]["flights"]
listed_flight(flight) ==
    [airline |-> IF "airlines" \in DOMAIN flight /\ flight.airlines # <<>>
                 THEN flight.airlines[1].name ELSE "Unknown Airline",
     departure_time |-> "", arrival_time |-> "", duration |-> "",
     price |-> listed_price(flight), currency |-> "INR", link |-> ""]

\* the entry appended for a flight of response["best_flights"]
best_flight(flight) ==
    [airline |-> IF flight.flights # <<>> THEN flight.flights[1].airline
                 ELSE "Unknown Airline",
     departure_time |-> "", arrival_time |-> "", duration |-> "",
     price |-> flight.price, currency |-> "INR", link |-> ""]

\* `if price and price <= budget_value`
within_budget(price, limit) == price # 0 /\ price <= limit

\* the loop over response["flights_results"]["flights"]
RECURSIVE listed_within(_, _)
listed_within(flights, limit) ==
    IF flights = <<>> THEN <<>>
    ELSE (IF within_budget(listed_price(Head(flights)), limit)
          THEN <<listed_flight(Head(flights))>> ELSE <<>>)
         \o listed_within(Tail(flights), limit)

\* the loop over response["best_flights"]
RECURSIVE best_within(_, _)
best_within(flights, limit) ==
    IF flights = <<>> THEN <<>>
    ELSE (IF within_budget(Head(flights).price, limit)
          THEN <<best_flight(Head(flights))>> ELSE <<>>)
         \o best_within(Tail(flights), limit)

\* flight_results as the code collects them from the response
flights_of(response, limit) ==
    IF "flights_results" \notin DOMAIN response THEN <<>>
    ELSE IF "flights" \in DOMAIN response.flights_results
    THEN listed_within(response.flights_results.flights, limit)
    ELSE IF "best_flights" \in DOMAIN response
    THEN best_within(response.best_flights, limit)
    ELSE <<>>

\* the sample data created when no flight was found
sample_flights(departure_date) ==
    << [airline |-> "Sample Airline",
        departure_time |-> departure_date \o " 08:00",
        arrival_time |-> departure_date \o " 10:00",
        duration |-> "2h 0m", price |-> 4500, currency |-> "INR",
        link |-> "#sample-link"],
       [airline |-> "Test Airways",
        departure_time |-> departure_date \o " 12:30",
        arrival_time |-> departure_date \o " 14:45",
        duration |-> "2h 15m", price |-> 4800, currency |-> "INR",
        link |-> "#sample-link"] >>

\* flight_results after the sample-data step
or_sample(flight_results, departure_date) ==
    IF flight_results = <<>> /\ DEBUG THEN sample_flights(departure_date)
    ELSE flight_results

flights_hash(origin, destination, departure_date) ==
    "flights_" \o origin \o "_" \o destination \o "_" \o departure_date

\* the try block of search_flights_serp for a provider that answered
flights_searched_serp(s, query_hash, response, flight_results) ==
    [s EXCEPT
       !.cache = cache_results(
                     cache_results(@, s.now, "debug_" \o query_hash, PyDict(response)),
                     s.now, query_hash,
                     PyDict([timestamp |-> s.now, results |-> flight_results])),
       !.last = @ @@ [outcome |-> Ret(flight_results), provider_called |-> TRUE]]

\* search_flights_serp once the cache has been read; response is what
\* GoogleSearch(params).get_dict() does
flights_after_cache(s, query_hash, cached, departure_date, limit, response) ==
    IF truthy(cached)
    THEN [s EXCEPT !.last = @ @@ [outcome |-> Ret(cached.val.results),
                                  provider_called |-> FALSE]]
    ELSE IF response.kind = "raise"
    THEN [s EXCEPT !.last = @ @@ [outcome |-> Ret(<<>>), provider_called |-> TRUE]]
    ELSE flights_searched_serp(s, query_hash, response.value,
             or_sample(flights_of(response.value, limit), departure_date))

\* booking_agent.search_flights_serp
search_flights_serp(s, origin, destination, departure_date, return_date, budget, response) ==
    IF ~s.credentials
    THEN [s EXCEPT !.last = @ @@ [outcome |-> no_credentials,
                                  provider_called |-> FALSE]]
    ELSE flights_after_cache(s,
             flights_hash(origin, destination, departure_date),
             get_cached_results(s.cache, s.now,
                 flights_hash(origin, destination, departure_date)),
             departure_date, budget_value(budget), response)

\* the info dict of get_destination_info_serp before the results are read
default_info(destination) ==
    [name |-> destination, description |-> "", attractions |-> <<>>,
     weather |-> "", best_time_to_visit |-> "", local_tips |-> <<>>]

\* dict.get(key, default)
get(d, key, default) == IF key \in DOMAIN d THEN d[key] ELSE default

\* info.update({...}) from results['knowledge_graph']
with_knowledge_graph(info, results) ==
    IF "knowledge_graph" \notin DOMAIN results THEN info
    ELSE update(info,
             [description |-> get(results.knowledge_graph, "description", ""),
              weather |-> get(results.knowledge_graph, "weather", ""),
              timezone |-> get(results.knowledge_graph, "timezone", ""),
              currency |-> get(results.knowledge_graph, "currency", ""),
              languages |-> get(results.knowledge_graph, "languages", <<>>)])

\* [line.strip() for line in lines if 15 < len(line.strip()) < 100]
RECURSIVE sentences(_)
sentences(lines) ==
    IF lines = <<>> THEN <<>>
    ELSE (IF Len(strip(Head(lines))) > 15 /\ Len(strip(Head(lines))) < 100
          THEN <<strip(Head(lines))>> ELSE <<>>)
         \o sentences(Tail(lines))

\* [item.get('title', '') for item in result.get('list', [])]
RECURSIVE titles(_)
titles(items) ==
    IF items = <<>> THEN <<>>
    ELSE <<get(Head(items), "title", "")>> \o titles(Tail(items))

\* what one organic result adds to attractions
attractions_in(result) ==
    IF ~AnyIn({ "attractions", "things to do", "places to visit" },
              lower(get(result, "title", "")))
    THEN <<>>
    ELSE IF "list" \in DOMAIN result THEN titles(result.list)
    ELSE IF get(result, "snippet", "") # ""
    THEN sentences(split(".", result.snippet))
    ELSE <<>>

\* what one organic result adds to tips
tips_in(result) ==
    IF AnyIn({ "tips", "guide", "advice", "travel" }, lower(get(result, "title", "")))
    THEN <<get(result, "snippet", "")>>
    ELSE <<>>

RECURSIVE all_attractions(_)
all_attractions(organic) ==
    IF organic = <<>> THEN <<>>
    ELSE attractions_in(Head(organic)) \o all_attractions(Tail(organic))

RECURSIVE all_tips(_)
all_tips(organic) ==
    IF organic = <<>> THEN <<>>
    ELSE tips_in(Head(organic)) \o all_tips(Tail(organic))

\* [t for t in texts if t and len(t.strip()) > n]
RECURSIVE longer_than(_, _)
longer_than(texts, n) ==
    IF texts = <<>> THEN <<>>
    ELSE (IF Len(strip(Head(texts))) > n THEN <<Head(texts)>> ELSE <<>>)
         \o longer_than(Tail(texts), n)

\* s[:n]
first(s, n) == SubSeq(s, 1, IF Len(s) < n THEN Len(s) ELSE n)

\* attractions with the fallback to the knowledge graph
or_known(attractions, results) ==
    IF attractions = <<>>
       /\ "attractions" \in DOMAIN get(results, "knowledge_graph", <<>>)
    THEN results.knowledge_graph.attractions
    ELSE attractions

\* the organic_results step of get_destination_info_serp
with_organic_results(info, results) ==
    IF "organic_results" \notin DOMAIN results THEN info
    ELSE [info EXCEPT
            !.attractions =
                first(longer_than(
                          or_known(all_attractions(first(results.organic_results, 5)),
                                   results), 3), 5),
            !.local_tips =
                first(longer_than(all_tips(first(results.organic_results, 5)), 20), 3)]

destination_hash(destination) == "destination_" \o destination

\* the try block once the info dict is complete
destination_found(s, query_hash, info) ==
    [s EXCEPT !.cache = cache_results(@, s.now, query_hash, PyDict(info)),
              !.last = @ @@ [outcome |-> Ret(PyDict(info)), provider_called |-> TRUE]]

\* get_destination_info_serp once the cache has been read
destination_after_cache(s, query_hash, cached, destination, response) ==
    IF truthy(cached)
    THEN [s EXCEPT !.last = @ @@ [outcome |-> Ret(cached), provider_called |-> FALSE]]
    ELSE IF response.kind = "raise" \/ "error" \in DOMAIN response.value
    THEN [s EXCEPT !.cache = cache_results(@, s.now, query_hash, PyDict(<<>>)),
                   !.last = @ @@ [outcome |-> Ret(PyDict(<<>>)),
                                  provider_called |-> TRUE]]
    ELSE destination_found(s, query_hash,
             with_organic_results(
                 with_knowledge_graph(default_info(destination), response.value),
                 response.value))

\* booking_agent.get_destination_info_serp
get_destination_info_serp(s, destination, response) ==
    IF ~s.credentials
    THEN [s EXCEPT !.last = @ @@ [outcome |-> no_credentials,
                                  provider_called |-> FALSE]]
    ELSE destination_after_cache(s, destination_hash(destination),
             get_cached_results(s.cache, s.now, destination_hash(destination)),
             destination, response)

----------------------------------------------------------------------------
(* The calls of the SerpAPI functions during one deployment: the key is set  *)
(* or not, the provider answers, fails or finds nothing, and time passes     *)
(* between calls.                                                            *)

\* how many calls of the SerpAPI functions a run makes
MaxSerpCalls == 3

\* how many times a run waits for the cache to expire
MaxWaits == 1

Budgets == { PyNone, PyStr(""), PyStr("3000"), PyStr("INR 6,000") }

ReturnDates == { "2025-06-20", "2025-06-25" }

Fare(airline, amount) ==
    [airlines |-> << [name |-> airline] >>, price |-> [total |-> [amount |-> amount]]]

\* what GoogleSearch(params).get_dict() does for a flight search
FlightResponses ==
    { Raise("Connection timed out"),
      Ret([error |-> "Google Flights hasn't returned any results for this query."]),
      Ret([flights_results |-> [flights |-> << Fare("IndiGo", 2500),
                                              Fare("Air India", 5500) >>]]),
      Ret([flights_results |-> [search_metadata |-> "Success"],
           best_flights |-> << [flights |-> << [airline |-> "Vistara"] >>,
                                price |-> 4000] >>]) }

\* what GoogleSearch(params).get_dict() does for a destination search
DestinationResponses ==
    { Raise("Connection timed out"),
      Ret([error |-> "Invalid API key"]),
      Ret([search_metadata |-> "Success"]),
      Ret([knowledge_graph |-> [description |-> "Capital of India"],
           organic_results |->
               << [title |-> "Top things to do in Delhi",
                   snippet |-> "Visit the Red Fort and Humayun's Tomb. See it."],
                  [title |-> "Delhi travel guide",
                   snippet |-> "Carry water and start early in summer."] >>]) }

InitSerp ==
    /\ serp \in { [credentials |-> c, cache |-> <<>>, now |-> 0, calls |-> 0,
                    waits |-> 0, last |-> [op |-> "none"]] : c \in BOOLEAN }
    /\ session = not_started
    /\ messages = <<>>
    /\ error = None
    /\ node = "serp"
    /\ decision = "unset"
    /\ turn = 0
    /\ prev = START
    /\ lastOutcome = "none"
    /\ assistant = not_built
    /\ config = shipped_config
    /\ conversation_state = not_started
    /\ last_call = not_started
    /\ hitl = not_started
    /\ cli = not_started
    /\ itinerary_call = not_started

serp_only ==
    UNCHANGED <<messages, error, node, decision, turn, prev, lastOutcome,
                assistant, config, conversation_state, last_call, hitl, session,
                cli, itinerary_call>>

SearchFlightsSerp(return_date, budget, response) ==
    /\ node = "serp"
    /\ serp.calls < MaxSerpCalls
    /\ serp' = search_flights_serp(
                   [serp EXCEPT !.calls = @ + 1,
                                !.last = [op |-> "search_flights_serp",
                                          budget |-> budget,
                                          return_date |-> return_date]],
                   "BOM", "DEL", "2025-06-15", return_date, budget, response)
    /\ serp_only

GetDestinationInfoSerp(response) ==
    /\ node = "serp"
    /\ serp.calls < MaxSerpCalls
    /\ serp' = get_destination_info_serp(
                   [serp EXCEPT !.calls = @ + 1,
                                !.last = [op |-> "get_destination_info_serp"]],
                   "DEL", response)
    /\ serp_only

\* more than SERPAPI_CACHE_DURATION seconds pass
Wait ==
    /\ node = "serp"
    /\ serp.waits < MaxWaits
    /\ serp' = [serp EXCEPT !.now = @ + SERPAPI_CACHE_DURATION + 1,
                            !.waits = @ + 1]
    /\ serp_only

NextSerp ==
    \/ \E return_date \in ReturnDates, budget \in Budgets,
          response \in FlightResponses :
          SearchFlightsSerp(return_date, budget, response)
    \/ \E response \in DestinationResponses : GetDestinationInfoSerp(response)
    \/ Wait

SpecSerp == InitSerp /\ [][NextSerp]_vars

----------------------------------------------------------------------------
(* agents/itinerary_agent.py: create_itinerary, with the validation and the *)
(* prompts of hitl.py. The operator's texts are handed to the call in the   *)
(* order input() reads them; a call that has read them all stays blocked in *)
(* input().                                                                 *)

\* previous_state of a revision entry is validated_itinerary.copy(), a
\* shallow copy made after 'revision_history' was stored in the dict: its
\* 'revision_history' is the very list the entry is appended to
SameList == [alias |-> "revision_history"]

\* the list reaches itself through one of its entries
circular(itinerary) ==
    /\ "revision_history" \in DOMAIN itinerary
    /\ \E i \in DOMAIN itinerary.revision_history :
           itinerary.revision_history[i].previous_state.revision_history
               = SameList

\* json.dumps(itinerary, indent=2): ValueError on a container met again
\* while it is being written
json_dumps(itinerary) ==
    IF circular(itinerary) THEN Raise("Circular reference detected")
    ELSE Ret("json")

\* where a create_itinerary call stands: the dict, the texts not read yet,
\* and as history the number of input() calls and of rejections so far
returning(itinerary, c) ==
    [kind |-> "return", itinerary |-> itinerary, answers |-> c.answers,
     asked |-> c.asked, rejections |-> c.rejections]
raising(e, c) ==
    [kind |-> "raise", error |-> e, answers |-> c.answers,
     asked |-> c.asked, rejections |-> c.rejections]
waiting(c) ==
    [kind |-> "waiting", answers |-> <<>>, asked |-> c.asked + 1,
     rejections |-> c.rejections]
\* the call after input() returned the next text
read(c) == [c EXCEPT !.answers = Tail(@), !.asked = @ + 1]

\* hitl.py:60-62, the human did not approve
needs_revision(itinerary, c) ==
    IF c.answers = <<>> THEN waiting(c)
    ELSE returning(
             update(itinerary,
                    [human_feedback |->
                         get_human_feedback([HITL_ENABLED |-> TRUE],
                                            Head(c.answers)),
                     needs_revision |-> TRUE]),
             read(c))

\* hitl.py:59-67 once get_human_approval has answered
approval_given(itinerary, approved, c) ==
    IF approved
    THEN returning(update(itinerary, [human_approved |-> TRUE,
                                      approval_time |-> "now"]), c)
    ELSE needs_revision(itinerary, [c EXCEPT !.rejections = @ + 1])

\* hitl.validate_itinerary; get_human_approval prints the dict once more
validate_itinerary(cfg, itinerary, c) ==
    IF ~cfg.HITL_ENABLED THEN returning(itinerary, c)
    ELSE IF json_dumps(itinerary).kind = "raise"
    THEN raising(json_dumps(itinerary).error, c)
    ELSE IF c.answers = <<>> THEN waiting(c)
    ELSE approval_given(itinerary, get_human_approval(cfg, Head(c.answers)),
                        read(c))

\* itinerary_agent.py:80-84 for a dict that holds the list `history`
with_entry(itinerary, history, feedback) ==
    update(itinerary,
           [revision_history |->
                Append(history,
                       [feedback |-> feedback,
                        previous_state |->
                            update(itinerary,
                                   [revision_history |-> SameList])])])

\* itinerary_agent.py:77-87
revised(itinerary, feedback) ==
    update(with_entry(itinerary, get(itinerary, "revision_history", <<>>),
                      feedback),
           [needs_revision |-> FALSE])

\* itinerary_agent.py:76-92, v the result of the latest validate_itinerary
RECURSIVE revision_loop(_, _)
revision_loop(cfg, v) ==
    IF v.kind # "return" THEN v
    ELSE IF ~get(v.itinerary, "needs_revision", FALSE) THEN v
    ELSE IF ~cfg.HITL_ENABLED
    THEN revision_loop(cfg, validate_itinerary(
                                cfg, revised(v.itinerary,
                                             get_human_feedback(cfg, "")),
                                v))
    ELSE IF v.answers = <<>> THEN waiting(v)
    ELSE revision_loop(cfg, validate_itinerary(
                                cfg,
                                revised(v.itinerary,
                                        get_human_feedback(cfg, Head(v.answers))),
                                read(v)))

\* itinerary_agent.py:64-70
daily_schedule(dest_info) ==
    IF "attractions" \notin DOMAIN dest_info THEN <<>>
    ELSE [i \in DOMAIN dest_info.attractions |->
              [activity |-> "Visit " \o dest_info.attractions[i],
               duration |-> "2-3 hours", type |-> "attraction"]]

\* itinerary_agent.py:55-61
initial_itinerary(destination, dest_info, flight_info, hotel_info) ==
    [destination |-> destination, destination_info |-> dest_info,
     flight |-> flight_info, hotel |-> hotel_info,
     daily_schedule |-> daily_schedule(dest_info)]

\* itinerary_agent.py:99-103
error_itinerary(error_resolution, c) ==
    IF "message" \notin DOMAIN error_resolution THEN raising("'message'", c)
    ELSE returning([status |-> "error",
                    message |-> error_resolution.message,
                    resolution |-> get(error_resolution, "resolution",
                                       "No resolution provided")], c)

\* the except clause of create_itinerary, itinerary_agent.py:94-103; an
\* exception raised in it leaves the function
except_clause(cfg, tried) ==
    IF tried.kind # "raise" THEN tried
    ELSE IF ~cfg.HITL_ENABLED
    THEN error_itinerary(handle_error(cfg, tried.error, [feedback |-> ""]),
                         tried)
    ELSE IF tried.answers = <<>> THEN waiting(tried)
    ELSE error_itinerary(handle_error(cfg, tried.error,
                                      [feedback |-> Head(tried.answers)]),
                         read(tried))

\* agents/itinerary_agent.create_itinerary
create_itinerary(cfg, destination, flight_info, hotel_info, answers) ==
    except_clause(
        cfg,
        revision_loop(
            cfg,
            validate_itinerary(
                cfg,
                initial_itinerary(destination,
                                  get_destination_info(destination),
                                  flight_info, hotel_info),
                [answers |-> answers, asked |-> 0, rejections |-> 0])))

MaxAnswers == 4
MaxItineraryCalls == 1

\* what the operator types at a prompt
Typed == { " Yes ", "y", "no", "more museums", "" }

RECURSIVE scripts(_)
scripts(n) ==
    IF n = 0 THEN { <<>> }
    ELSE scripts(n - 1)
         \cup { Append(s, t) : s \in { x \in scripts(n - 1) : Len(x) = n - 1 },
                               t \in Typed }

InitItinerary ==
    /\ config \in { [HITL_ENABLED |-> e, HITL_MODE |-> "cli"] : e \in BOOLEAN }
    /\ itinerary_call = [calls |-> 0]
    /\ cli = not_started
    /\ serp = not_started
    /\ session = not_started
    /\ conversation_state = not_started
    /\ last_call = not_started
    /\ hitl = not_started
    /\ messages = <<>>
    /\ error = None
    /\ node = "itinerary_agent"
    /\ decision = "unset"
    /\ turn = 0
    /\ prev = START
    /\ lastOutcome = "none"
    /\ assistant = not_built

CreateItinerary(destination, flight_info, hotel_info, answers) ==
    /\ node = "itinerary_agent"
    /\ "calls" \in DOMAIN itinerary_call
    /\ itinerary_call.calls < MaxItineraryCalls
    /\ itinerary_call' =
           [calls |-> itinerary_call.calls + 1,
            answers |-> answers,
            outcome |-> create_itinerary(config, destination, flight_info,
                                         hotel_info, answers)]
    /\ UNCHANGED <<messages, error, node, decision, turn, prev, lastOutcome,
                   assistant, config, conversation_state, last_call, hitl,
                   session, serp, cli>>

NextItinerary ==
    \E destination \in { "Paris", "LAX" }, answers \in scripts(MaxAnswers) :
        CreateItinerary(destination, Delta, GrandHotel, answers)

SpecItinerary == InitItinerary /\ [][NextItinerary]_vars

----------------------------------------------------------------------------
(* main.py: the session loop of the command-line assistant. One step reads  *)
(* the user's line, another is one pass of the inner loop: the completion   *)
(* request, process_tool_calls on the tool calls of the answer, and the     *)
(* messages appended after it. The loop only appends to its message list    *)
(* and hands the list to the model, so cli.messages keeps the end of the    *)
(* list, from the latest assistant message on.                              *)

\* main.py:16-21, each agent with the opening of its instructions
agent_definitions ==
    [supervisor |->
         [instructions |->
              "You are the initial triage agent for a travel planning system."],
     flight_agent |->
         [instructions |-> "You are a flight booking specialist agent."],
     hotel_agent |->
         [instructions |-> "You are a hotel booking specialist agent."],
     itinerary_agent |->
         [instructions |-> "You are an itinerary creation specialist."]]

\* main.py:27-30 and 68-71
system_message(agent) ==
    [role |-> "system", content |-> agent_definitions[agent].instructions]

\* main.py:74-82; json.dumps(user_preferences) is kept as the dict it prints
context_message(cs) ==
    [role |-> "system",
     content |->
         [text |-> "Here's what we know so far:\n"
                   \o (IF truthy(cs.flight_options)
                       THEN "- Flight options are available\n" ELSE "")
                   \o (IF truthy(cs.hotel_options)
                       THEN "- Hotel options are available\n" ELSE "")
                   \o (IF DOMAIN cs.user_preferences # {}
                       THEN "- User preferences: " ELSE ""),
          user_preferences |-> cs.user_preferences]]

\* main.py:88-93
tool_messages(tool_outputs) ==
    [i \in DOMAIN tool_outputs |->
         [role |-> "tool",
          tool_call_id |-> tool_outputs[i].tool_call_id,
          content |-> tool_outputs[i].output]]

\* an exception nothing catches ends main()
crashed(c, e) == [c EXCEPT !.at = "crashed", !.raised = e]

\* main.py:63-85 with the agent left as it was
tools_processed_keeping_agent(c, done) ==
    IF done.raised # None THEN crashed(c, done.raised)
    ELSE IF done.next_agent \notin { None, "" }
    THEN [c EXCEPT !.messages = @ \o <<system_message(done.next_agent),
                                       context_message(done.conversation_state)>>]
    ELSE [c EXCEPT !.messages = @ \o tool_messages(done.tool_outputs)]

\* main.py:60-96 once process_tool_calls has ended as `done`
tools_processed(c, done) ==
    IF done.raised # None THEN crashed(c, done.raised)
    ELSE IF done.next_agent \notin { None, "" }
    THEN IF done.next_agent \notin DOMAIN agent_definitions
         THEN crashed([c EXCEPT !.current_agent = done.next_agent],
                      "'" \o done.next_agent \o "'")
         ELSE [c EXCEPT !.current_agent = done.next_agent,
                        !.messages = @ \o <<system_message(done.next_agent),
                                            context_message(done.conversation_state)>>]
    ELSE [c EXCEPT !.messages = @ \o tool_messages(done.tool_outputs)]

\* main.py:50-51
answered(c, assistant_message) ==
    [c EXCEPT !.messages = <<assistant_message>>]

\* history: the step of the loop made last
stepped(c, step) == [c EXCEPT !.last = step]

\* how many failed tool calls a session logs in error_history
MaxCliErrors == 1

UserInputs == { "Quit", "I want to book a trip from NYC to LAX" }

\* the message of a completion: text, tool calls, or both
cli_requests(requests) ==
    [i \in 1..Len(requests) |->
         [id |-> call_ids[i],
          function |-> [name |-> requests[i][1], arguments |-> requests[i][2]]]]

CliToolCalls ==
    { cli_requests(r) :
        r \in { <<>>,
                << <<"get_destination_info", destination_args>> >>,
                << <<"search_flights", flight_args>> >>,
                << <<"search_flights", flight_args_short>> >>,
                << <<"search_hotels", hotel_args>> >>,
                << <<"handoff", to_itinerary_args>> >>,
                << <<"handoff", to_flight_args>> >>,
                << <<"handoff", to_itinerary_args>>,
                   <<"search_hotels", hotel_args>> >>,
                << <<"search_flights", flight_args>>,
                   <<"handoff", to_flight_args>> >> } }

Completions ==
    { Ret([role |-> "assistant", content |-> t, tool_calls |-> calls]) :
        t \in { "", "Here are your options." }, calls \in CliToolCalls }
    \cup { Raise("Connection error.") }

InitCli ==
    /\ config \in { [HITL_ENABLED |-> e, HITL_MODE |-> "cli"] : e \in BOOLEAN }
    /\ cli = [current_agent |-> "supervisor",
              at |-> "input",
              messages |-> <<system_message("supervisor")>>,
              raised |-> None,
              last |-> "none"]
    /\ conversation_state = initial_conversation_state
    /\ last_call = [invocations |-> 0]
    /\ itinerary_call = not_started
    /\ serp = not_started
    /\ session = not_started
    /\ hitl = not_started
    /\ messages = <<>>
    /\ error = None
    /\ node = "main"
    /\ decision = "unset"
    /\ turn = 0
    /\ prev = START
    /\ lastOutcome = "none"
    /\ assistant = not_built

cli_unchanged ==
    UNCHANGED <<messages, error, node, decision, turn, prev, lastOutcome,
                assistant, config, hitl, session, serp, itinerary_call>>

\* main.py:33-38
UserInput(user_input) ==
    /\ cli.at = "input"
    /\ cli' = IF lower(user_input) = "quit"
              THEN [stepped(cli, "input") EXCEPT !.at = "quit"]
              ELSE [stepped(cli, "input") EXCEPT
                               !.at = "llm",
                               !.messages = Append(@, [role |-> "user",
                                                       content |-> user_input])]
    /\ UNCHANGED <<conversation_state, last_call>>
    /\ cli_unchanged

\* main.py:43-99 for a completion without tool calls, or one that failed
Reply(response) ==
    /\ cli.at = "llm"
    /\ \/ /\ response.kind = "raise"
          /\ cli' = crashed(stepped(cli, "reply"), response.error)
       \/ /\ response.kind = "return"
          /\ response.value.tool_calls = <<>>
          /\ cli' = [stepped(answered(cli, response.value), "reply")
                        EXCEPT !.at = "input"]
    /\ UNCHANGED <<conversation_state, last_call>>
    /\ cli_unchanged

\* the values process_tool_calls ended with, as ProcessToolCalls keeps them
invocation(tool_calls, provider, human, done) ==
    [invocations |-> 1,
     tool_calls |-> tool_calls,
     provider |-> provider,
     human |-> human,
     tool_outputs |-> done.tool_outputs,
     next_agent |-> done.next_agent,
     raised |-> done.raised,
     caught |-> done.caught,
     handled |-> done.handled]

\* main.py:58-96 with the outcome of process_tool_calls
ToolsProcessed(assistant_message, provider, human, done) ==
    /\ Len(done.conversation_state.error_history) <= MaxCliErrors
    /\ cli' = tools_processed(stepped(answered(cli, assistant_message), "tools"),
                              done)
    /\ conversation_state' = done.conversation_state
    /\ last_call' = invocation(assistant_message.tool_calls, provider, human,
                               done)

\* main.py:43-96 for a completion with tool calls
UseTools(response, provider, human) ==
    /\ cli.at = "llm"
    /\ response.kind = "return"
    /\ response.value.tool_calls # <<>>
    /\ ToolsProcessed(response.value, provider, human,
                      process_tool_calls(config, conversation_state,
                                         response.value.tool_calls,
                                         provider, human))
    /\ cli_unchanged

InnerLoop ==
    \/ \E response \in Completions : Reply(response)
    \/ \E response \in Completions, provider \in Providers, human \in Humans :
           UseTools(response, provider, human)

NextCli ==
    \/ \E user_input \in UserInputs : UserInput(user_input)
    \/ InnerLoop

SpecCli == InitCli /\ [][NextCli]_vars

\* the process runs: a pass of the inner loop that can be made is made
FairSpecCli == SpecCli /\ WF_vars(InnerLoop)

----------------------------------------------------------------------------
(* app.py: one run of the script. Streamlit runs the script from the top    *)
(* when the user submits the text box and when st.rerun() was called, which *)
(* ends the run at once; the text box keeps its text from run to run. The   *)
(* events of graph.stream are the updates of the nodes and carry no "type"  *)
(* entry.                                                                   *)

\* [msg for msg in messages if not msg.get('is_processing', False)]
without_indicator(msgs) ==
    SelectSeq(msgs, LAMBDA msg : ~get(msg, "is_processing", FALSE))

\* app.handle_user_message; the id of the indicator, which nothing reads, and
\* the emoji of its text are left out
handle_user_message(ss, user_input) ==
    [ss EXCEPT
       !.messages = @ \o << [role |-> "user", content |-> user_input],
                            [role |-> "assistant",
                             content |-> "Analyzing your travel request...",
                             is_processing |-> TRUE] >>,
       !.is_processing = TRUE,
       !.rerun = TRUE]

\* app.py:376-381
with_user_message(ss, user_input) ==
    [ss EXCEPT !.travel_state =
                   IF @ = <<>> THEN << [role |-> "user", content |-> user_input] >>
                   ELSE Append(@, [role |-> "user", content |-> user_input])]

\* what graph.stream does in process_message
StreamOutcomes == { "updates", "timeout", "raised" }

graph_error == "Recursion limit of 25 reached"

\* app.py:385-475 once the indicator is removed: the loop over the events and
\* what follows it, or the except clause
streamed(ss, outcome) ==
    CASE outcome = "updates" ->
           [say(ss, "I'm processing your request. Can you please provide more details about your travel plans?")
              EXCEPT !.is_processing = FALSE]
      [] outcome = "timeout" ->
           [say(say(ss, "I've been processing for too long and had to stop. Please try a more specific request or check your input."),
                "I'm processing your request. Can you please provide more details about your travel plans?")
              EXCEPT !.is_processing = FALSE]
      [] outcome = "raised" ->
           say([ss EXCEPT !.is_processing = FALSE],
               "I encountered an error while processing your request. Please try again or provide more specific details. Error: "
                   \o graph_error)

\* app.process_message
process_message(ss, user_input, outcome) ==
    IF ss.graph = None
    THEN say([ss EXCEPT !.messages = without_indicator(@),
                        !.is_processing = FALSE],
             "I'm sorry, but the travel assistant is not properly initialized. Please check the error message or try again later.")
    ELSE streamed([with_user_message(ss, user_input) EXCEPT
                     !.messages = without_indicator(@),
                     !.graph_runs = @ + 1],
                  outcome)

\* app.py:744-746
pending_processed(ss, outcome) ==
    IF ss.pending_message \notin { None, "" }
    THEN [process_message(ss, ss.pending_message, outcome)
            EXCEPT !.pending_message = None]
    ELSE ss

\* app.py:749-752
input_handled(ss, user_input) ==
    IF user_input # ""
    THEN handle_user_message([ss EXCEPT !.pending_message = user_input],
                             user_input)
    ELSE ss

\* app.py:736-752, one run of the script
script(ss, outcome) ==
    input_handled(pending_processed([ss EXCEPT !.rerun = FALSE,
                                               !.runs = @ + 1], outcome),
                  ss.widget)

\* how many times the script runs in a session
MaxScriptRuns == 4

\* what the user leaves in the text box
BoxTexts == { "", "Trip from Mumbai to Delhi", "Hotels in Goa" }

InitApp ==
    /\ session \in { initial_session_state
                       @@ [graph |-> g, widget |-> "", rerun |-> FALSE,
                           runs |-> 0, submitted |-> 0, graph_runs |-> 0] :
                     g \in { None, "compiled" } }
    /\ messages = <<>>
    /\ error = None
    /\ node = "script"
    /\ decision = "unset"
    /\ turn = 0
    /\ prev = START
    /\ lastOutcome = "none"
    /\ assistant = not_built
    /\ config = shipped_config
    /\ conversation_state = not_started
    /\ last_call = not_started
    /\ hitl = not_started
    /\ serp = not_started
    /\ cli = not_started
    /\ itinerary_call = not_started

\* the user changes the text box and presses Enter: the script runs
Submit(text, outcome) ==
    /\ node = "script"
    /\ session.runs < MaxScriptRuns
    /\ text # session.widget
    /\ session' = script([session EXCEPT
                            !.widget = text,
                            !.submitted = IF text # "" THEN @ + 1 ELSE @],
                         outcome)
    /\ session_only

\* the run that st.rerun() asked for
Rerun(outcome) ==
    /\ node = "script"
    /\ session.runs < MaxScriptRuns
    /\ session.rerun
    /\ session' = script(session, outcome)
    /\ session_only

NextApp ==
    \/ \E text \in BoxTexts, outcome \in StreamOutcomes : Submit(text, outcome)
    \/ \E outcome \in StreamOutcomes : Rerun(outcome)

SpecApp == InitApp /\ [][NextApp]_vars

----------------------------------------------------------------------------
(* The error log of the command-line assistant *)

\* C11: across the process_tool_calls invocations of a run the error log is
\* append-only: it never gets shorter, the entries it held stay as they
\* were, and every tool call whose handling raised added exactly one entry
\* with the tool name, the error text and the resolution of the error handler
C11_ErrorLogAppendOnly ==
    [][LET before == conversation_state.error_history
           after == conversation_state'.error_history
           caught == last_call'.caught
       IN  /\ Len(after) >= Len(before)
           /\ SubSeq(after, 1, Len(before)) = before
           /\ Len(after) = Len(before) + Len(caught)
           /\ \A k \in 1..Len(caught) :
                LET entry == after[Len(before) + k]
                IN  /\ DOMAIN entry = { "tool", "error", "resolution" }
                    /\ entry.tool = caught[k].tool
                    /\ entry.error = caught[k].error
                    /\ entry.resolution.status \in { "error", "resolved" }]_vars

\* a second invocation added entries to a log that already held some
C11_Witness ==
    /\ last_call.invocations = 2
    /\ Len(last_call.caught) = 2
    /\ Len(conversation_state.error_history) > 2

\* the latest invocation processed exactly this one tool call
Processed(name, arguments) ==
    /\ "tool_calls" \in DOMAIN last_call
    /\ Len(last_call.tool_calls) = 1
    /\ last_call.tool_calls[1].function = [name |-> name, arguments |-> arguments]

no_flights_text ==
    "Error: No flights found matching your criteria\nResolution: No resolution provided"
no_hotels_text ==
    "Error: No hotels found matching your criteria\nResolution: No resolution provided"

----------------------------------------------------------------------------
(* The human-interaction calls *)

\* C15: a get_human_selection call over the empty option list returns None
\* in every configuration and whatever the operator types: the call never
\* raises, and it does not go on waiting once the operator has typed a text
C15_EmptySelectionReturnsNone ==
    ( /\ hitl.status # "idle"
      /\ hitl.kind = "selection"
      /\ hitl.options = <<>> )
    => /\ hitl.status # "raised"
       /\ hitl.status = "returned" => hitl.result = PyNone
       /\ hitl.status = "waiting" => hitl.typed = 0

\* C16: every human-interaction call that waits for the operator returns:
\* when HITL_TIMEOUT has elapsed without an answer the call ends with its
\* default, so no call blocks without bound
C16_EveryCallReturns ==
    (hitl.status = "waiting") ~> (hitl.status = "returned")

----------------------------------------------------------------------------
(* The itinerary agent of the travel graph *)

\* the agent has answered in this run: its directive is in the history,
\* followed by an assistant message
Answered(name) ==
    \E i \in 1..(Len(messages) - 1) :
        /\ messages[i] = [role |-> "system", content |-> directive_of(name)]
        /\ messages[i + 1].role = "assistant"

\* C17: the itinerary agent produces an itinerary only when a flight and a
\* hotel have been selected, hence only after the flight agent and the hotel
\* agent have both answered in this run
C17_ItineraryOnlyAfterFlightAndHotel ==
    ( /\ prev = "itinerary_agent"
      /\ lastOutcome = "ok"
      /\ Last = [role |-> "assistant",
                 content |-> "This completes your final itinerary. Is there anything else you'd like to know?"] )
    => Answered("flight_agent") /\ Answered("hotel_agent")

----------------------------------------------------------------------------
(* Sessions *)

\* C19: a session state reaches its terminal state at most once: after a
\* run on it has ended, a further user message on the same state invokes no
\* agent (streams counts the runs started on the session's TravelState)
C19_NoInvocationAfterTerminal ==
    ~(session.streams >= 2 /\ turn >= 1)

----------------------------------------------------------------------------
(* Trip parameters *)

TripParameters ==
    { "origin", "destination", "departure_date", "return_date", "budget",
      "travelers" }

\* the trip parameter is set in the user preferences
IsSet(preferences, field) ==
    field \in DOMAIN preferences /\ preferences[field] # ""

\* C20: a trip parameter that is set is never reset to empty or absent by a
\* later tool call: it keeps its value or takes a later non-empty value
C20_TripParametersNeverReset ==
    [][\A field \in TripParameters :
          IsSet(conversation_state.user_preferences, field)
          => IsSet(conversation_state'.user_preferences, field)]_vars

----------------------------------------------------------------------------
(* The Streamlit session *)

\* origin, destination and both dates of the extracted info are non-empty
SearchReady(info) ==
    \A field \in { "origin", "destination", "departure_date", "return_date" } :
        info[field] # ""

\* the latest call was search_travel_options
Searched == session'.calls # session.calls /\ session'.last.op = "search_travel_options"

\* C21: chat_stage is 'ready_to_search' or 'results' only if origin,
\* destination, departure_date and return_date are all non-empty, and
\* search_travel_options called with any of the four empty performs no search
\* and leaves search_results and chat_stage unchanged
C21_SearchStageNeedsTripParameters ==
    /\ [](session.chat_stage \in { "ready_to_search", "results" }
          => SearchReady(session.extracted_info))
    /\ [][Searched /\ ~SearchReady(session.extracted_info)
          => /\ session'.last.searches = 0
             /\ session'.search_results = session.search_results
             /\ session'.chat_stage = session.chat_stage]_vars

\* a search refused for want of information, then the information extracted
\* and a search that reached the results stage
C21_Witness ==
    /\ session.chat_stage = "results"
    /\ session.last.op = "search_travel_options"
    /\ session.last.searches = 3
    /\ SearchReady(session.extracted_info)
    /\ \E i \in DOMAIN session.messages :
         Contains("I need more information", session.messages[i].content)

----------------------------------------------------------------------------
(* The SerpAPI functions *)

\* the latest call was of the function `op`
Called(op) == serp.last.op = op

C30_ReturnedFlightsWithinBudget ==
    Called("search_flights_serp") /\ serp.last.outcome.kind = "return"
    => \A i \in DOMAIN serp.last.outcome.value :
           serp.last.outcome.value[i].price <= budget_value(serp.last.budget)

----------------------------------------------------------------------------
(* Failures in the session loop of the command-line assistant *)

\* C23: no exception escapes the session loop: for every failure of a tool
\* call or a search, with HITL enabled and with HITL disabled, the error
\* handler's result can be formatted by its caller and the caller receives
\* the tool outputs, none left as an exception raised by process_tool_calls
C23_NoExceptionEscapes ==
    "raised" \in DOMAIN last_call => last_call.raised = None

----------------------------------------------------------------------------
(* The itinerary returned by create_itinerary *)

\* the latest create_itinerary call is over: it is not blocked in input()
ItineraryCallOver ==
    /\ "outcome" \in DOMAIN itinerary_call
    /\ itinerary_call.outcome.kind # "waiting"

\* C26: a create_itinerary call that is over has returned the itinerary:
\* needs_revision is not true in it, revision_history holds one entry per
\* rejection of the human, with HITL enabled it carries the approval mark,
\* and with HITL disabled the human was not asked and the itinerary has
\* neither a revision entry nor an approval mark.
C26_ItineraryReturnedAfterApproval ==
    ItineraryCallOver
    => /\ itinerary_call.outcome.kind = "return"
       /\ ~get(itinerary_call.outcome.itinerary, "needs_revision", FALSE)
       /\ Len(get(itinerary_call.outcome.itinerary, "revision_history", <<>>))
              = itinerary_call.outcome.rejections
       /\ config.HITL_ENABLED
              => get(itinerary_call.outcome.itinerary, "human_approved", FALSE)
       /\ ~config.HITL_ENABLED
              => /\ itinerary_call.outcome.asked = 0
                 /\ DOMAIN itinerary_call.outcome.itinerary
                        \cap { "revision_history", "human_approved",
                               "approval_time" } = {}

----------------------------------------------------------------------------
(* The session loop of main.py *)

\* C24: the processing of one user message ends: whenever the inner loop of
\* main.py is running, it is left after finitely many completions, whatever
\* the completions contain.
C24_InnerLoopEnds == (cli.at = "llm") ~> (cli.at # "llm")

\* the tool calls of the assistant message the next completion answers
PrecedingToolCalls ==
    IF cli.messages[1].role = "assistant" THEN cli.messages[1].tool_calls
    ELSE <<>>

\* the tool-role messages that answer the tool call with this id
ToolMessagesFor(id) ==
    { j \in DOMAIN cli.messages :
        /\ cli.messages[j].role = "tool"
        /\ cli.messages[j].tool_call_id = id }

\* C27: before each completion request every tool call of the preceding
\* assistant message has exactly one tool-role message with its
\* tool_call_id in the message list, also when the batch held an approved
\* handoff.
C27_EveryToolCallAnswered ==
    cli.at = "llm"
    => \A i \in DOMAIN PrecedingToolCalls :
           Cardinality(ToolMessagesFor(PrecedingToolCalls[i].id)) = 1

\* this step is a pass of the inner loop that ran process_tool_calls
ToolsStep == cli.at = "llm" /\ cli'.last = "tools"

\* the agent a handoff tool call names, None for every other tool call
handoff_to(tool_call) ==
    IF /\ tool_call.function.name = "handoff"
       /\ eval(tool_call.function.arguments).kind = "return"
       /\ "to" \in DOMAIN eval(tool_call.function.arguments).value
    THEN eval(tool_call.function.arguments).value.to
    ELSE None

\* the place of the first handoff in a batch, 0 when it has none
first_handoff(tool_calls) ==
    IF \A i \in DOMAIN tool_calls : handoff_to(tool_calls[i]) = None THEN 0
    ELSE CHOOSE i \in DOMAIN tool_calls :
             /\ handoff_to(tool_calls[i]) # None
             /\ \A j \in 1..(i - 1) : handoff_to(tool_calls[j]) = None

\* what process_tool_calls answered to the tool call at place i
outputs_for(invoked, i) ==
    { invoked.tool_outputs[k].output : k \in
        { k \in DOMAIN invoked.tool_outputs :
            invoked.tool_outputs[k].tool_call_id = invoked.tool_calls[i].id } }

\* the handoff of the batch was approved: the target is returned at once,
\* the loop switches to it and appends its instructions
ApprovedHandoff(invoked, i, before, after) ==
    /\ invoked.next_agent = handoff_to(invoked.tool_calls[i])
    /\ invoked.tool_outputs[Len(invoked.tool_outputs)]
           = [tool_call_id |-> invoked.tool_calls[i].id,
              output |-> PyStr("Handing off to "
                               \o handoff_to(invoked.tool_calls[i]))]
    /\ \A j \in (i + 1)..Len(invoked.tool_calls) : outputs_for(invoked, j) = {}
    /\ after.current_agent = handoff_to(invoked.tool_calls[i])
    /\ after.at = "llm"
    /\ after.messages[2] = system_message(handoff_to(invoked.tool_calls[i]))

\* the handoff of the batch was rejected: the rejection is reported, the
\* agent stays and the calls after it are answered
RejectedHandoff(invoked, i, before, after) ==
    /\ invoked.next_agent = None
    /\ outputs_for(invoked, i)
           = { PyStr("Handoff was not approved by human operator.") }
    /\ \A j \in (i + 1)..Len(invoked.tool_calls) : outputs_for(invoked, j) # {}
    /\ after.current_agent = before.current_agent
    /\ after.at = "llm"

HandoffProcessed(invoked, i, before, after) ==
    IF get_human_approval(config, invoked.human.approval)
    THEN ApprovedHandoff(invoked, i, before, after)
    ELSE RejectedHandoff(invoked, i, before, after)

\* C25: the current agent of the session loop changes only in a pass whose
\* batch holds a handoff the human approved (or HITL is disabled), and then
\* becomes the target of that handoff. After an approved handoff
\* process_tool_calls has returned the target at once, the target is the
\* current agent and its instructions are in the message list when the next
\* completion is requested; after a rejected handoff the output reports the
\* rejection, the current agent is unchanged and the tool calls that follow
\* in the batch have been answered.
C25_AgentChangesOnlyByApprovedHandoff ==
    [][ /\ cli'.current_agent # cli.current_agent
            => /\ ToolsStep
               /\ first_handoff(last_call'.tool_calls) # 0
               /\ get_human_approval(config, last_call'.human.approval)
               /\ cli'.current_agent = last_call'.next_agent
        /\ ( /\ ToolsStep
             /\ last_call'.raised = None
             /\ first_handoff(last_call'.tool_calls) # 0 )
            => HandoffProcessed(last_call',
                                first_handoff(last_call'.tool_calls),
                                cli, cli')
      ]_vars

C25_Witness ==
    /\ config.HITL_ENABLED
    /\ cli.last = "tools"
    /\ cli.at = "llm"
    /\ Len(last_call.tool_calls) = 2
    /\ first_handoff(last_call.tool_calls) = 1
    /\ get_human_approval(config, last_call.human.approval)
    /\ cli.current_agent = "itinerary_agent"
    /\ cli.messages[2] = system_message("itinerary_agent")

----------------------------------------------------------------------------
(* The request records of the Streamlit human-interaction calls *)

\* C28: in Streamlit mode a request slot holds no request once its call has
\* ended, and no call of get_human_approval, get_human_selection or
\* handle_error fails on the record an earlier call left: while no call
\* waits every slot is absent, and no call ends with an exception.
C28_RequestSlotReusable ==
    /\ hitl.status # "waiting"
           => \A kind \in DOMAIN hitl.requests : hitl.requests[kind] = "absent"
    /\ hitl.status # "raised"

----------------------------------------------------------------------------
(* The messages of the Streamlit session *)

\* C29: each message the user submits is appended to travel_state.messages
\* once and run through the graph once: the session never holds more user
\* messages in travel_state, nor has it started more graph runs, than the
\* user submitted messages; and when no rerun is asked for, pending_message
\* is cleared and is_processing is false.
C29_MessageProcessedOnce ==
    /\ Len(session.travel_state) <= session.submitted
    /\ session.graph_runs <= session.submitted
    /\ ~session.rerun
           => session.pending_message = None /\ ~session.is_processing

====
